---- MODULE Spec2Model ----
(***************************************************************************)
(* ObitFinder: the pipeline CRM (src/app.py) and the case browser          *)
(* (src/app_legacy.py).                                                    *)
(*                                                                         *)
(* The store holds the contatos table (status, notes, status_updated_at    *)
(* per contact), the relacionamentos junction table and the casos table.   *)
(* A session runs move_to_stage or update_contact_notes; every round trip  *)
(* to the store is one step, so that the calls of two sessions interleave  *)
(* exactly at the store operations, as they do against the shared          *)
(* database.  A run of main() of either application is a script whose      *)
(* steps are its store queries.                                            *)
(***************************************************************************)
EXTENDS Integers, Sequences, FiniteSets, TLC

\* ------------------------------------------------------------------ bounds

NumContacts == 4            \* rows of contatos: ids 1..NumContacts
NumCases == 2               \* rows of casos: ids 1..NumCases

Contacts == 1..NumContacts
Cases == 1..NumCases
MissingId == NumContacts + 1            \* an id with no row in contatos
ContactIds == Contacts \cup {MissingId} \* ids a caller may pass
Sessions == {"s1", "s2"}

\* ------------------------------------------------------------ configuration

PIPELINE_STAGES == <<"New", "Attempted", "In Progress", "Won", "Lost">>

Stages == {PIPELINE_STAGES[i] : i \in DOMAIN PIPELINE_STAGES}

\* A value outside PIPELINE_STAGES that a caller may still pass as new_status.
InvalidStage == "Archived"
StageInputs == Stages \cup {InvalidStage}

\* Texts of the notes column and of the notes a caller saves.  A text is a
\* sequence of pieces; concatenation of texts is \o.
NoteTexts == {<<>>, <<"foo">>}
NoteInputs == {<<>>, <<"bar">>}

\* ------------------------------------------------------------------- texts

\* A column that is NULL in the store, None in Python.
Null == <<"None">>

\* The capital letters ILIKE folds, each with its small letter at the same
\* place in LowerCase: A-Z, the capitals of Latin-1, and the capitals past
\* Latin-1 that a text of this module can hold together with their small
\* letter.  A capital whose small letter no text here can hold stands for
\* its own case class.
UpperCase == <<"A", "B", "C", "D", "E", "F", "G", "H", "I", "J", "K", "L",
               "M", "N", "O", "P", "Q", "R", "S", "T", "U", "V", "W", "X",
               "Y", "Z", "À", "Á", "Â", "Ã", "Ä", "Å", "Æ", "Ç", "È", "É",
               "Ê", "Ë", "Ì", "Í", "Î", "Ï", "Ð", "Ñ", "Ò", "Ó", "Ô", "Õ",
               "Ö", "Ø", "Ù", "Ú", "Û", "Ü", "Ý", "Þ", "Ƃ", "Ƅ", "Ƈ", "Ƌ",
               "Ǝ", "Ƒ", "Ƙ", "Ơ", "Ƣ", "Ƥ", "Ʀ", "Ƨ", "Ʃ", "Ƭ", "Ʈ", "Ư",
               "Ʊ", "Ʋ", "Ƴ", "Ƶ", "Ʒ", "Ƹ", "Ƽ", "Ǆ", "ǅ", "Ǉ", "ǈ", "Ǌ",
               "ǋ", "Ǎ", "Ǐ", "Ǒ", "Ǔ", "Ǖ", "Ǘ", "Ǚ", "Ǜ", "Ǟ", "Ǡ", "Ǣ",
               "Ǥ", "Ǧ", "Ǩ", "Ǫ", "Ǭ", "Ǯ", "Ǳ", "ǲ", "Ǵ", "Ƕ", "Ƿ", "Ǹ",
               "Ǻ", "Ǽ", "Ǿ", "Ά", "Έ", "Ή", "Ί", "Ό", "Ύ", "Ώ", "Α", "Β",
               "Γ", "Δ", "Ε", "Ζ", "Η", "Θ", "Ι", "Κ", "Λ", "Μ", "Ν", "Ξ",
               "Ο", "Π", "Ρ", "Σ", "Τ", "Υ", "Φ", "Χ", "Ψ", "Ω", "Ϊ", "Ϋ",
               "Ϗ", "Ϙ", "Ϛ", "Ϝ", "Ϟ", "Ϡ", "Ϣ", "Ϥ", "Ϧ", "Ϩ", "Ϫ", "Ϭ",
               "Ϯ", "ϴ", "Ϸ", "Ϲ", "Ϻ", "Ҁ", "Ҋ", "Ҍ", "Ҏ", "Ґ", "Ғ", "Ҕ",
               "Җ", "Ҙ", "Қ", "Ҝ", "Ҟ", "Ҡ", "Ң", "Ҥ", "Ҧ", "Ҩ", "Ҫ", "Ҭ",
               "Ү", "Ұ", "Ҳ", "Ҵ", "Ҷ", "Ҹ", "Һ", "Ҽ", "Ҿ", "Ӏ", "Ӂ", "Ӄ",
               "Ӆ", "Ӈ", "Ӊ", "Ӌ", "Ӎ", "Ӑ", "Ӓ", "Ӕ", "Ӗ", "Ә", "Ӛ", "Ӝ",
               "Ӟ", "Ӡ", "Ӣ", "Ӥ", "Ӧ", "Ө", "Ӫ", "Ӭ", "Ӯ", "Ӱ", "Ӳ", "Ӵ",
               "Ӷ", "Ӹ", "Ӻ", "Ӽ", "Ӿ", "Ꮀ", "Ꮁ", "Ꮂ", "Ꮃ", "Ꮄ", "Ꮅ", "Ꮆ",
               "Ꮇ", "Ꮈ", "Ꮉ", "Ꮊ", "Ꮋ", "Ꮌ", "Ꮍ", "Ꮎ", "Ꮏ", "Ꮐ", "Ꮑ", "Ꮒ",
               "Ꮓ", "Ꮔ", "Ꮕ", "Ꮖ", "Ꮗ", "Ꮘ", "Ꮙ", "Ꮚ", "Ꮛ", "Ꮜ", "Ꮝ", "Ꮞ",
               "Ꮟ", "Ꮠ", "Ꮡ", "Ꮢ", "Ꮣ", "Ꮤ", "Ꮥ", "Ꮦ", "Ꮧ", "Ꮨ", "Ꮩ", "Ꮪ",
               "Ꮫ", "Ꮬ", "Ꮭ", "Ꮮ", "Ꮯ", "Ꮰ", "Ꮱ", "Ꮲ", "Ꮳ", "Ꮴ", "Ꮵ", "Ꮶ",
               "Ꮷ", "Ꮸ", "Ꮹ", "Ꮺ", "Ꮻ", "Ꮼ", "Ꮽ", "Ꮾ", "Ꮿ", "Ᏸ", "Ᏹ", "Ᏺ",
               "Ᏻ", "Ᏼ", "Ᏽ", "Ა", "Ბ", "Გ", "Დ", "Ე", "Ვ", "Ზ", "Თ", "Ი",
               "Კ", "Ლ", "Მ", "Ნ", "Ო", "Პ", "Ჟ", "Რ", "Ს", "Ტ", "Უ", "Ფ",
               "Ქ", "Ღ", "Ყ", "Შ", "Ჩ", "Ც", "Ძ", "Წ", "Ჭ", "Ხ", "Ჯ", "Ჰ",
               "Ჱ", "Ჲ", "Ჳ", "Ჴ", "Ჵ", "Ჶ", "Ჷ", "Ჸ", "Ჹ", "Ჺ", "Ჽ", "Ჾ",
               "Ჿ", "Ẁ", "Ẃ", "Ẅ", "Ẇ", "Ẉ", "Ẋ", "Ẍ", "Ẏ", "Ẑ", "Ẓ", "Ẕ",
               "ẞ", "Ạ", "Ả", "Ấ", "Ầ", "Ẩ", "Ẫ", "Ậ", "Ắ", "Ằ", "Ẳ", "Ẵ",
               "Ặ", "Ẹ", "Ẻ", "Ẽ", "Ế", "Ề", "Ể", "Ễ", "Ệ", "Ỉ", "Ị", "Ọ",
               "Ỏ", "Ố", "Ồ", "Ổ", "Ỗ", "Ộ", "Ớ", "Ờ", "Ở", "Ỡ", "Ợ", "Ụ",
               "Ủ", "Ứ", "Ừ", "Ử", "Ữ", "Ự", "Ỳ", "Ỵ", "Ỷ", "Ỹ", "Ỻ", "Ỽ",
               "Ỿ", "ᾈ", "ᾉ", "ᾊ", "ᾋ", "ᾌ", "ᾍ", "ᾎ", "ᾏ", "ᾘ", "ᾙ", "ᾚ",
               "ᾛ", "ᾜ", "ᾝ", "ᾞ", "ᾟ", "ᾨ", "ᾩ", "ᾪ", "ᾫ", "ᾬ", "ᾭ", "ᾮ",
               "ᾯ", "Ᾰ", "Ᾱ", "ᾼ", "ῌ", "Ῐ", "Ῑ", "Ῠ", "Ῡ", "Ῥ", "ῼ", "Ↄ",
               "Ⓐ", "Ⓑ", "Ⓒ", "Ⓓ", "Ⓔ", "Ⓕ", "Ⓖ", "Ⓗ", "Ⓘ", "Ⓙ", "Ⓚ", "Ⓛ",
               "Ⓜ", "Ⓝ", "Ⓞ", "Ⓟ", "Ⓠ", "Ⓡ", "Ⓢ", "Ⓣ", "Ⓤ", "Ⓥ", "Ⓦ", "Ⓧ",
               "Ⓨ", "Ⓩ", "Ⲁ", "Ⲃ", "Ⲅ", "Ⲇ", "Ⲉ", "Ⲋ", "Ⲍ", "Ⲏ", "Ⲑ", "Ⲓ",
               "Ⲕ", "Ⲗ", "Ⲙ", "Ⲛ", "Ⲝ", "Ⲟ", "Ⲡ", "Ⲣ", "Ⲥ", "Ⲧ", "Ⲩ", "Ⲫ",
               "Ⲭ", "Ⲯ", "Ⲱ", "Ⲳ", "Ⲵ", "Ⲷ", "Ⲹ", "Ⲻ", "Ⲽ", "Ⲿ", "Ⳁ", "Ⳃ",
               "Ⳅ", "Ⳇ", "Ⳉ", "Ⳋ", "Ⳍ", "Ⳏ", "Ⳑ", "Ⳓ", "Ⳕ", "Ⳗ", "Ⳙ", "Ⳛ",
               "Ⳝ", "Ⳟ", "Ⳡ", "Ⳣ", "Ⳬ", "Ⳮ", "Ⳳ", "Ꚁ", "Ꚃ", "Ꚅ", "Ꚇ", "Ꚉ",
               "Ꚋ", "Ꚍ", "Ꚏ", "Ꚑ", "Ꚓ", "Ꚕ", "Ꚗ", "Ꚙ", "Ꚛ", "Ꞁ", "Ꞃ", "Ꞅ",
               "Ꞇ", "Ꞌ", "Ꞑ", "Ꞓ", "Ꞗ", "Ꞙ", "Ꞛ", "Ꞝ", "Ꞟ", "Ꞡ", "Ꞣ", "Ꞥ",
               "Ꞧ", "Ꞩ", "Ʞ", "Ʇ", "Ʝ", "Ꞵ", "Ꞷ", "Ꞹ", "Ꞻ", "Ꞽ", "Ꞿ", "Ꟁ",
               "Ꟃ", "Ꞔ", "Ʂ", "Ᶎ", "Ꟈ", "Ꟊ", "Ꟑ", "Ꟗ", "Ꟙ", "Ꟶ">>
LowerCase == <<"a", "b", "c", "d", "e", "f", "g", "h", "i", "j", "k", "l",
               "m", "n", "o", "p", "q", "r", "s", "t", "u", "v", "w", "x",
               "y", "z", "à", "á", "â", "ã", "ä", "å", "æ", "ç", "è", "é",
               "ê", "ë", "ì", "í", "î", "ï", "ð", "ñ", "ò", "ó", "ô", "õ",
               "ö", "ø", "ù", "ú", "û", "ü", "ý", "þ", "ƃ", "ƅ", "ƈ", "ƌ",
               "ǝ", "ƒ", "ƙ", "ơ", "ƣ", "ƥ", "ʀ", "ƨ", "ʃ", "ƭ", "ʈ", "ư",
               "ʊ", "ʋ", "ƴ", "ƶ", "ʒ", "ƹ", "ƽ", "ǆ", "ǆ", "ǉ", "ǉ", "ǌ",
               "ǌ", "ǎ", "ǐ", "ǒ", "ǔ", "ǖ", "ǘ", "ǚ", "ǜ", "ǟ", "ǡ", "ǣ",
               "ǥ", "ǧ", "ǩ", "ǫ", "ǭ", "ǯ", "ǳ", "ǳ", "ǵ", "ƕ", "ƿ", "ǹ",
               "ǻ", "ǽ", "ǿ", "ά", "έ", "ή", "ί", "ό", "ύ", "ώ", "α", "β",
               "γ", "δ", "ε", "ζ", "η", "θ", "ι", "κ", "λ", "μ", "ν", "ξ",
               "ο", "π", "ρ", "σ", "τ", "υ", "φ", "χ", "ψ", "ω", "ϊ", "ϋ",
               "ϗ", "ϙ", "ϛ", "ϝ", "ϟ", "ϡ", "ϣ", "ϥ", "ϧ", "ϩ", "ϫ", "ϭ",
               "ϯ", "θ", "ϸ", "ϲ", "ϻ", "ҁ", "ҋ", "ҍ", "ҏ", "ґ", "ғ", "ҕ",
               "җ", "ҙ", "қ", "ҝ", "ҟ", "ҡ", "ң", "ҥ", "ҧ", "ҩ", "ҫ", "ҭ",
               "ү", "ұ", "ҳ", "ҵ", "ҷ", "ҹ", "һ", "ҽ", "ҿ", "ӏ", "ӂ", "ӄ",
               "ӆ", "ӈ", "ӊ", "ӌ", "ӎ", "ӑ", "ӓ", "ӕ", "ӗ", "ә", "ӛ", "ӝ",
               "ӟ", "ӡ", "ӣ", "ӥ", "ӧ", "ө", "ӫ", "ӭ", "ӯ", "ӱ", "ӳ", "ӵ",
               "ӷ", "ӹ", "ӻ", "ӽ", "ӿ", "ꮀ", "ꮁ", "ꮂ", "ꮃ", "ꮄ", "ꮅ", "ꮆ",
               "ꮇ", "ꮈ", "ꮉ", "ꮊ", "ꮋ", "ꮌ", "ꮍ", "ꮎ", "ꮏ", "ꮐ", "ꮑ", "ꮒ",
               "ꮓ", "ꮔ", "ꮕ", "ꮖ", "ꮗ", "ꮘ", "ꮙ", "ꮚ", "ꮛ", "ꮜ", "ꮝ", "ꮞ",
               "ꮟ", "ꮠ", "ꮡ", "ꮢ", "ꮣ", "ꮤ", "ꮥ", "ꮦ", "ꮧ", "ꮨ", "ꮩ", "ꮪ",
               "ꮫ", "ꮬ", "ꮭ", "ꮮ", "ꮯ", "ꮰ", "ꮱ", "ꮲ", "ꮳ", "ꮴ", "ꮵ", "ꮶ",
               "ꮷ", "ꮸ", "ꮹ", "ꮺ", "ꮻ", "ꮼ", "ꮽ", "ꮾ", "ꮿ", "ᏸ", "ᏹ", "ᏺ",
               "ᏻ", "ᏼ", "ᏽ", "ა", "ბ", "გ", "დ", "ე", "ვ", "ზ", "თ", "ი",
               "კ", "ლ", "მ", "ნ", "ო", "პ", "ჟ", "რ", "ს", "ტ", "უ", "ფ",
               "ქ", "ღ", "ყ", "შ", "ჩ", "ც", "ძ", "წ", "ჭ", "ხ", "ჯ", "ჰ",
               "ჱ", "ჲ", "ჳ", "ჴ", "ჵ", "ჶ", "ჷ", "ჸ", "ჹ", "ჺ", "ჽ", "ჾ",
               "ჿ", "ẁ", "ẃ", "ẅ", "ẇ", "ẉ", "ẋ", "ẍ", "ẏ", "ẑ", "ẓ", "ẕ",
               "ß", "ạ", "ả", "ấ", "ầ", "ẩ", "ẫ", "ậ", "ắ", "ằ", "ẳ", "ẵ",
               "ặ", "ẹ", "ẻ", "ẽ", "ế", "ề", "ể", "ễ", "ệ", "ỉ", "ị", "ọ",
               "ỏ", "ố", "ồ", "ổ", "ỗ", "ộ", "ớ", "ờ", "ở", "ỡ", "ợ", "ụ",
               "ủ", "ứ", "ừ", "ử", "ữ", "ự", "ỳ", "ỵ", "ỷ", "ỹ", "ỻ", "ỽ",
               "ỿ", "ᾀ", "ᾁ", "ᾂ", "ᾃ", "ᾄ", "ᾅ", "ᾆ", "ᾇ", "ᾐ", "ᾑ", "ᾒ",
               "ᾓ", "ᾔ", "ᾕ", "ᾖ", "ᾗ", "ᾠ", "ᾡ", "ᾢ", "ᾣ", "ᾤ", "ᾥ", "ᾦ",
               "ᾧ", "ᾰ", "ᾱ", "ᾳ", "ῃ", "ῐ", "ῑ", "ῠ", "ῡ", "ῥ", "ῳ", "ↄ",
               "ⓐ", "ⓑ", "ⓒ", "ⓓ", "ⓔ", "ⓕ", "ⓖ", "ⓗ", "ⓘ", "ⓙ", "ⓚ", "ⓛ",
               "ⓜ", "ⓝ", "ⓞ", "ⓟ", "ⓠ", "ⓡ", "ⓢ", "ⓣ", "ⓤ", "ⓥ", "ⓦ", "ⓧ",
               "ⓨ", "ⓩ", "ⲁ", "ⲃ", "ⲅ", "ⲇ", "ⲉ", "ⲋ", "ⲍ", "ⲏ", "ⲑ", "ⲓ",
               "ⲕ", "ⲗ", "ⲙ", "ⲛ", "ⲝ", "ⲟ", "ⲡ", "ⲣ", "ⲥ", "ⲧ", "ⲩ", "ⲫ",
               "ⲭ", "ⲯ", "ⲱ", "ⲳ", "ⲵ", "ⲷ", "ⲹ", "ⲻ", "ⲽ", "ⲿ", "ⳁ", "ⳃ",
               "ⳅ", "ⳇ", "ⳉ", "ⳋ", "ⳍ", "ⳏ", "ⳑ", "ⳓ", "ⳕ", "ⳗ", "ⳙ", "ⳛ",
               "ⳝ", "ⳟ", "ⳡ", "ⳣ", "ⳬ", "ⳮ", "ⳳ", "ꚁ", "ꚃ", "ꚅ", "ꚇ", "ꚉ",
               "ꚋ", "ꚍ", "ꚏ", "ꚑ", "ꚓ", "ꚕ", "ꚗ", "ꚙ", "ꚛ", "ꞁ", "ꞃ", "ꞅ",
               "ꞇ", "ꞌ", "ꞑ", "ꞓ", "ꞗ", "ꞙ", "ꞛ", "ꞝ", "ꞟ", "ꞡ", "ꞣ", "ꞥ",
               "ꞧ", "ꞩ", "ʞ", "ʇ", "ʝ", "ꞵ", "ꞷ", "ꞹ", "ꞻ", "ꞽ", "ꞿ", "ꟁ",
               "ꟃ", "ꞔ", "ʂ", "ᶎ", "ꟈ", "ꟊ", "ꟑ", "ꟗ", "ꟙ", "ꟶ">>

\* The letter ILIKE compares in place of each capital letter.
Fold ==
    [ch \in {UpperCase[i] : i \in DOMAIN UpperCase} |->
        LowerCase[CHOOSE i \in DOMAIN UpperCase : UpperCase[i] = ch]]

\* A text as ILIKE compares it: letters that differ in case only are the
\* same.
FoldText(text) ==
    [i \in DOMAIN text |->
        IF text[i] \in DOMAIN Fold THEN Fold[text[i]] ELSE text[i]]

\* The white space str.strip() removes: blank, tab, line feed, carriage
\* return, form feed, vertical tab, the separators 1C-1F, NEL, the no-break
\* space and the Ogham space mark (the other white space past Latin-1 can be
\* held by no text here).
WhiteSpace ==
    {" ", "\t", "\n", "\r", "\f", "", "", "", "", "", "", " ", " "}

IsSpace(ch) == ch \in WhiteSpace

\* str.strip(): the text without its leading and trailing white space.
RECURSIVE Strip(_)
Strip(text) ==
    IF text = <<>> THEN text
    ELSE IF IsSpace(Head(text)) THEN Strip(Tail(text))
    ELSE IF IsSpace(text[Len(text)]) THEN Strip(SubSeq(text, 1, Len(text) - 1))
    ELSE text

\* A text counted as filled whenever it is not NULL.
NonBlank_NotNull(text) == text # Null

\* Python's truth of `text and text.strip()`.
NonBlank(text) == text # Null /\ text # <<>> /\ Strip(text) # <<>>

\* `x or ''` and `str(x) if x else ''` on a notes value: None and the empty
\* text give the empty text.
NotesOrEmpty(notes) == IF notes = Null \/ notes = <<>> THEN <<>> ELSE notes

\* The characters of a LIKE pattern that stand for any run of characters
\* and for any one character.
AnyRun == {"%"}
AnyOne == {"_"}

\* The pattern the database receives: every '*' of the filter's value,
\* PostgREST's alias of '%', has become '%', one that follows an escape
\* character too.
Stars(pattern) ==
    [i \in DOMAIN pattern |-> IF pattern[i] = "*" THEN "%" ELSE pattern[i]]

\* The escape character of a LIKE pattern: the character after it stands
\* for itself.
Escape == "\\"

\* SQL LIKE: the whole text matches the pattern.  A pattern that ends in a
\* lone escape character is refused by the store; CityPattern builds none.
RECURSIVE Like(_, _)
Like(text, pattern) ==
    IF pattern = <<>> THEN text = <<>>
    ELSE IF Head(pattern) = Escape
         THEN /\ Len(pattern) > 1
              /\ text # <<>>
              /\ pattern[2] = Head(text)
              /\ Like(Tail(text), Tail(Tail(pattern)))
    ELSE IF Head(pattern) \in AnyRun
         THEN \/ Like(text, Tail(pattern))
              \/ text # <<>> /\ Like(Tail(text), pattern)
         ELSE /\ text # <<>>
              /\ Head(pattern) \in AnyOne \/ Head(pattern) = Head(text)
              /\ Like(Tail(text), Tail(pattern))

\* column ILIKE pattern: a NULL column matches no pattern.
Ilike(text, pattern) ==
    text # Null /\ Like(FoldText(text), FoldText(Stars(pattern)))

\* The pattern f'%{cidade_filter.strip()}%'.
CityPattern(cidade_filter) == <<"%">> \o Strip(cidade_filter) \o <<"%">>

\* `cidade_filter and cidade_filter.strip()`: the filter is applied.
HasCityFilter(cidade_filter) == NonBlank(cidade_filter)

\* ------------------------------------------------------------------- state

VARIABLES
    contatos,           \* id -> [status, notes, status_updated_at, ...]
    relacionamentos,    \* sequence of [caso_id, contato_id], in store order
    now,                \* reading of the wall clock (datetime.now())
    frame,              \* session -> the locals of the call it runs
    pre,                \* session -> contatos when its call was entered
    store_calls,        \* session -> the store calls its call has issued
    casos,              \* id -> [nome, cidade, data_obito]
    columns,            \* the columns the contatos table has
    session_state,      \* st.session_state of the session that views
    script,             \* the position of the run of main() and its locals
    screen              \* what the run of main() has rendered

vars == <<contatos, relacionamentos, now, frame, pre, store_calls,
          casos, columns, session_state, script, screen>>

\* The variables of a call of the engine, and those of a run of main().
engineVars == <<now, frame, pre>>
uiVars == <<casos, columns, session_state, script, screen>>

\* ------------------------------------------------------ relationship tables

Rel(caso, contato) == [caso_id |-> caso, contato_id |-> contato]

\* The junction tables a behaviour starts from, in the store's row order:
\* four relatives of one deceased; a relative linked to two cases, with a
\* sibling on each, and a relative with no row at all; a relative linked to
\* one case by two rows, and a relative alone on its case.
RelTables ==
    { <<Rel(1, 1), Rel(1, 2), Rel(1, 3), Rel(1, 4)>>,
      <<Rel(1, 1), Rel(2, 1), Rel(2, 2), Rel(1, 3)>>,
      <<Rel(1, 1), Rel(1, 2), Rel(1, 2), Rel(2, 3)>> }

\* Contacts linked to a case by some row of a junction table.
LinkedTo(rels, caso) ==
    {rels[i].contato_id : i \in {j \in DOMAIN rels : rels[j].caso_id = caso}}

\* Cases a contact is linked to by some row of a junction table.
CasesOf(rels, contato) ==
    {rels[i].caso_id : i \in {j \in DOMAIN rels : rels[j].contato_id = contato}}

\* ------------------------------------------------------------ store queries

\* client.table('relacionamentos').select('caso_id').eq('contato_id', id)
SelectRelsByContato(rels, id) ==
    LET Match(r) == r.contato_id = id
        rows == SelectSeq(rels, Match)
    IN  [i \in DOMAIN rows |-> [caso_id |-> rows[i].caso_id]]

\* The read of the case's rows without its filter on caso_id.
SelectRelsByCaso_AnyCase(rels, caso) ==
    [i \in DOMAIN rels |-> [contato_id |-> rels[i].contato_id]]

\* client.table('relacionamentos').select('contato_id').eq('caso_id', caso)
SelectRelsByCaso(rels, caso) ==
    LET Match(r) == r.caso_id = caso
        rows == SelectSeq(rels, Match)
    IN  [i \in DOMAIN rows |-> [contato_id |-> rows[i].contato_id]]

\* client.table('contatos').select('status').eq('id', id): the rows found,
\* each with the selected column only.
SelectStatus(tab, id) ==
    IF id \in DOMAIN tab THEN <<[status |-> tab[id].status]>> ELSE <<>>

\* .single(): the request is answered when exactly one row is found, and
\* raises otherwise.
Single(rows) == Len(rows) = 1

\* The update passing over a row whose status is Won or Lost.
UpdateRow_OpenOnly(tab, id, fields) ==
    IF id \in DOMAIN tab /\ tab[id].status \notin {"Won", "Lost"}
    THEN [tab EXCEPT ![id] =
            [f \in DOMAIN @ |-> IF f \in DOMAIN fields THEN fields[f] ELSE @[f]]]
    ELSE tab

\* client.table('contatos').update(fields).eq('id', id): the rows that match
\* get the fields; an id that matches no row changes nothing and is no error.
UpdateRow(tab, id, fields) ==
    IF id \in DOMAIN tab
    THEN [tab EXCEPT ![id] =
            [f \in DOMAIN @ |-> IF f \in DOMAIN fields THEN fields[f] ELSE @[f]]]
    ELSE tab

\* ------------------------------------------------------- engine decisions

\* The status update without the timestamp.
StatusFields_NoStamp(new_status, t) == [status |-> new_status]

\* update_contact_status: the fields of the update.
StatusFields(new_status, t) ==
    [status |-> new_status, status_updated_at |-> t]

\* The notes update stamping the row as a status change does.
NotesFields_Stamped(notes) == [notes |-> notes, status_updated_at |-> 1]

\* update_contact_notes: the fields of the update.
NotesFields(notes) == [notes |-> notes]

\* The cascade entered on a move to Lost as well.
TriggersCascade_WonOrLost(new_status) == new_status \in {"Won", "Lost"}

\* move_to_stage: the branch `if new_status == 'Won'`.
TriggersCascade(new_status) == new_status = "Won"

\* The cascade passing over Won siblings only (a Lost sibling is closed
\* again).
ClosedStatuses_WonOnly == {"Won"}

\* The cascade passing over Lost siblings only (a Won sibling is demoted).
ClosedStatuses_LostOnly == {"Lost"}

\* one_win_close_all: the statuses a sibling is left alone in.
ClosedStatuses == {"Won", "Lost"}

\* one_win_close_all: `status_resp.data and status_resp.data['status'] not in
\* ['Won', 'Lost']`, on the row the status read returned.
ShouldClose(rows) ==
    /\ rows # <<>>
    /\ rows[1].status \notin ClosedStatuses

\* one_win_close_all: `caso_id = rel_resp.data[0]['caso_id']`.
CascadeCase(rel_rows) == rel_rows[1].caso_id

\* dict.get(key, default) on a row of a response.
Get(row, key, default) == IF key \in DOMAIN row THEN row[key] ELSE default

\* The audit line f"\n[Auto-closed: Another relative won on {now}]".
AuditLine(t) ==
    <<"\n[Auto-closed: Another relative won on ", ToString(t), "]">>

\* one_win_close_all: the fields written to a sibling that is closed, from
\* the row the status read returned.
LostFields(row, audit_at, t) ==
    [status |-> "Lost",
     notes |-> Get(row, "notes", <<>>) \o AuditLine(audit_at),
     status_updated_at |-> t]

\* The loop without its `continue` on the winner's rows.
NextSibling_NoSkip(all_rels, i, winner) == i

\* one_win_close_all: the loop `for rel in all_rels.data` up to its next
\* store call: the index of the first row from i on that is not the winner's
\* (`continue` on the winner), or Len + 1 when the loop is over.
RECURSIVE NextSibling(_, _, _)
NextSibling(all_rels, i, winner) ==
    IF i > Len(all_rels) THEN i
    ELSE IF all_rels[i].contato_id = winner
         THEN NextSibling(all_rels, i + 1, winner)
         ELSE i

\* --------------------------------------------------------------- sessions

NoResult == [kind |-> "none", success |-> FALSE, closed |-> 0]
Returned(success, closed) ==
    [kind |-> "returned", success |-> success, closed |-> closed]
Raised == [kind |-> "raised", success |-> FALSE, closed |-> 0]

\* The locals of a session: the contact shown in the detail view with the
\* status and the notes read for it, the call's arguments, the clock
\* readings of the update it builds (the one of the audit line, the one of
\* the timestamp), the cascade's locals, the result.
IdleFrame ==
    [pc |-> "idle", op |-> "none", contato_id |-> 0, new_status |-> "",
     notes |-> <<>>, seen_status |-> "", seen_notes |-> <<>>,
     audit_at |-> 0, stamp |-> 0,
     caso_id |-> 0, all_rels |-> <<>>, idx |-> 0,
     status_resp |-> <<>>, closed_count |-> 0, result |-> NoResult]

\* The frame of a call that is over: its arguments and its result.
Done(f, result) ==
    [IdleFrame EXCEPT !.pc = "done", !.op = f.op, !.contato_id = f.contato_id,
                      !.new_status = f.new_status, !.notes = f.notes,
                      !.result = result]

Idle(s) == frame[s].pc \in {"idle", "done"}

\* A store call as it is recorded: the operation, the contact or case it
\* names, whether the store carried it out, and the status a read returned.
StoreCall(call, id, ok, seen) ==
    [call |-> call, id |-> id, ok |-> ok, seen |-> seen]

Issue(s, call, id, ok, seen) ==
    store_calls' = [store_calls EXCEPT ![s] =
                        Append(@, StoreCall(call, id, ok, seen))]

\* ------------------------------------------------ the tables the views read

CARDS_PER_PAGE == 15

\* The columns the pipeline needs on contatos (the migration adds them).
RequiredColumns == {"status", "notes", "status_updated_at"}

\* An id that is NULL, and the embedded row of a join that found none.
NoId == 0
NullRow == [id |-> NoId]
IsNull(row) == row.id = NoId

Springfield == <<"S", "p", "r", "i", "n", "g", "f", "i", "e", "l", "d">>
Fairview == <<"F", "a", "i", "r", "v", "i", "e", "w">>

\* A timestamp is the pair of its date (its first ten characters, a day
\* number) and its time of day in seconds.
Timestamp(day, sec) == <<day, sec>>

\* data_obito[:10]: the date of a timestamp.
DatePart(ts) == SubSeq(ts, 1, 1)

\* The casos table of the pipeline: a case in Springfield, the others in
\* Fairview.
BoardCasos ==
    [k \in Cases |->
        [nome |-> <<"Deceased ", ToString(k)>>,
         cidade |-> IF k = 1 THEN Springfield ELSE Fairview,
         data_obito |-> Timestamp(k, 3600 * k)]]

\* A relationship row with its label (tipo_parentesco).
RelAs(caso, contato, tipo) ==
    [caso_id |-> caso, contato_id |-> contato, tipo_parentesco |-> <<tipo>>]

\* The junction tables a run of the board reads: a relative linked to two
\* cases, a relative whose row names no case and a relative with no row; a
\* relative linked twice to a case under two labels, the rows of a relative
\* apart from each other.
BoardRelTables ==
    { <<RelAs(1, 1, "Filho"), RelAs(2, 1, "Irmao"), RelAs(2, 2, "Conjuge"),
        RelAs(NoId, 3, "Neto")>>,
      <<RelAs(2, 1, "Irmao"), RelAs(1, 2, "Filho"), RelAs(1, 2, "Conjuge"),
        RelAs(1, 3, "Neto"), RelAs(2, 4, "Pai"), RelAs(1, 1, "Filho")>> }

\* The values of a phone column: NULL, empty, blank, a number, a number
\* with a leading blank.
PhoneValues == {Null, <<>>, <<" ">>, <<"555-0101">>, <<" ", "555-0102">>}

\* The phone columns of the contacts of the board, by contact.
PhoneBook(c) ==
    CASE c = 1 -> <<<<"555-0101">>, Null, <<" ">>, <<" ", "555-0102">>>>
      [] c = 2 -> <<Null, <<>>, <<"555-0203">>, <<"555-0204">>>>
      [] c = 3 -> <<Null, <<" ">>, <<>>, Null>>
      [] OTHER -> <<<<>>, <<>>, <<>>, <<"555-0404">>>>

\* A row of contatos with the columns a card shows.
ContatoRow(c, status, phones) ==
    [status |-> status, notes |-> <<>>, status_updated_at |-> 0,
     nome |-> <<"Relative ", ToString(c)>>,
     telefone_1 |-> phones[1], telefone_2 |-> phones[2],
     telefone_3 |-> phones[3], telefone_4 |-> phones[4]]

\* ------------------------------------------------------------ card assembly

Min(a, b) == IF a <= b THEN a ELSE b
Max(a, b) == IF a >= b THEN a ELSE b

\* The embedded rows of the join, with the columns the query selects.
EmbedContato(tab, id) ==
    [id |-> id, nome |-> tab[id].nome,
     telefone_1 |-> tab[id].telefone_1, telefone_2 |-> tab[id].telefone_2,
     telefone_3 |-> tab[id].telefone_3, telefone_4 |-> tab[id].telefone_4,
     status |-> tab[id].status, notes |-> tab[id].notes]

EmbedCaso(cs, k) ==
    [id |-> k, nome |-> cs[k].nome, cidade |-> cs[k].cidade,
     data_obito |-> cs[k].data_obito]

\* fetch_pipeline_cards: response.data of the query on relacionamentos.  The
\* inner join keeps the rows whose contact is in the stage; the case is
\* embedded when the row names one and, under a city filter, when its city
\* matches (the filter on the embedded casos leaves the row and empties the
\* embedding); the first `limit` rows are returned.
SelectCards(rels, tab, cs, status, cidade_filter, limit) ==
    LET InStage(r) ==
            r.contato_id \in DOMAIN tab /\ tab[r.contato_id].status = status
        rows == SelectSeq(rels, InStage)
        Caso(r) ==
            IF /\ r.caso_id \in DOMAIN cs
               /\ HasCityFilter(cidade_filter)
                    => Ilike(cs[r.caso_id].cidade, CityPattern(cidade_filter))
            THEN EmbedCaso(cs, r.caso_id)
            ELSE NullRow
        data == [i \in DOMAIN rows |->
                    [tipo_parentesco |-> rows[i].tipo_parentesco,
                     caso_id |-> rows[i].caso_id,
                     contatos |-> EmbedContato(tab, rows[i].contato_id),
                     casos |-> Caso(rows[i])]]
    IN  SubSeq(data, 1, Min(limit, Len(data)))

NoPhone == <<"No phone">>
NoLinkedCase == <<"No linked case">>

\* ', '.join(texts).
RECURSIVE Join(_)
Join(texts) ==
    IF texts = <<>> THEN <<>>
    ELSE IF Len(texts) = 1 THEN texts[1]
    ELSE texts[1] \o <<", ">> \o Join(Tail(texts))

\* phones = [contato.get(f'telefone_{i}', '') for i in range(1, 5)]
Phones(contato) ==
    <<contato.telefone_1, contato.telefone_2,
      contato.telefone_3, contato.telefone_4>>

\* The phones that pass `p and p.strip()`, in slot order.
FilledPhones(phones) == SelectSeq(phones, NonBlank)

\* next((p for p in phones if p and p.strip()), 'No phone')
PhoneDisplay(phones) ==
    IF FilledPhones(phones) = <<>> THEN NoPhone ELSE FilledPhones(phones)[1]

\* ', '.join([p for p in phones if p and p.strip()])
AllPhones(phones) == Join(FilledPhones(phones))

\* fetch_pipeline_cards: the card of a row of the response.
Card(rel) ==
    LET contato == rel.contatos
        caso == rel.casos
    IN  [contato_id |-> contato.id,
         contato_nome |-> contato.nome,
         phone_display |-> PhoneDisplay(Phones(contato)),
         all_phones |-> AllPhones(Phones(contato)),
         status |-> contato.status,
         notes |-> contato.notes,
         caso_id |-> IF IsNull(caso) THEN NoId ELSE caso.id,
         caso_nome |-> IF IsNull(caso) THEN NoLinkedCase ELSE caso.nome,
         caso_cidade |-> IF IsNull(caso) THEN <<>> ELSE caso.cidade,
         caso_data_obito |->
            IF ~IsNull(caso) /\ caso.data_obito # Null
            THEN DatePart(caso.data_obito) ELSE <<>>,
         tipo_parentesco |-> rel.tipo_parentesco]

\* The contacts seen, none remembered.
SeenWith_Forgotten(seen_contacts, id) == seen_contacts

\* seen_contacts.add(contato['id'])
SeenWith(seen_contacts, id) == seen_contacts \cup {id}

\* fetch_pipeline_cards: the loop over response.data from row i on; a row
\* whose contact was seen is passed over.
RECURSIVE AssembleCards(_, _, _)
AssembleCards(data, i, seen_contacts) ==
    IF i > Len(data) THEN <<>>
    ELSE IF IsNull(data[i].contatos) \/ data[i].contatos.id \in seen_contacts
         THEN AssembleCards(data, i + 1, seen_contacts)
         ELSE <<Card(data[i])>>
              \o AssembleCards(data, i + 1,
                               SeenWith(seen_contacts, data[i].contatos.id))

\* fetch_pipeline_cards(client, status, limit, cidade_filter) on a store
\* that answers the query.
FetchPipelineCards(rels, tab, cs, status, limit, cidade_filter) ==
    AssembleCards(SelectCards(rels, tab, cs, status, cidade_filter, limit),
                  1, {})

\* The columns of contatos the query of fetch_pipeline_cards names.
CardColumns == {"status", "notes"}

\* The count query without its filter on status.
CountStatus_AnyStatus(tab, stage) == Cardinality(DOMAIN tab)

\* select('id', count='exact').eq('status', stage): `resp.count if
\* resp.count else 0`.
CountStatus(tab, stage) == Cardinality({c \in DOMAIN tab : tab[c].status = stage})

\* ------------------------------------------------------------ runs of main

\* A date input that holds no date (None).
NoDate == NoId

\* The session whose runs of main() are followed.
Viewer == "s1"

\* init_session_state of both applications.
FreshSession ==
    [schema_verified |-> FALSE, migration_checked |-> FALSE,
     filter_cidade |-> <<>>,
     page_offset |-> 0, filter_date_start |-> NoDate, filter_date_end |-> NoDate]

\* A session that has passed the schema check.
VerifiedSession == [FreshSession EXCEPT !.schema_verified = TRUE]

\* No run of main() under way: the script's position and locals.
IdleScript ==
    [pc |-> "idle", stage |-> 0, counts |-> <<>>, count |-> 0,
     cidade_filter |-> <<>>, event |-> ""]

\* Nothing rendered: the sidebar counts, the columns of the board, the
\* error shown, the notice of the migration, the page of cases and its total.
BlankScreen ==
    [counts |-> <<>>, board |-> <<>>, error |-> "", notice |-> "",
     casos |-> <<>>, total_count |-> 0]

\* The positions at which no run is under way.
RunOver == {"idle", "done", "stopped", "raised"}

\* The engine's sessions run past the schema check, no run of main() shown.
PastGate ==
    /\ casos = BoardCasos
    /\ columns = RequiredColumns
    /\ session_state = VerifiedSession
    /\ script = IdleScript
    /\ screen = BlankScreen

\* ------------------------------------------------------------------- Init

AtMostOneWon(tab, rels) ==
    \A k \in Cases :
        Cardinality({c \in LinkedTo(rels, k) : tab[c].status = "Won"}) <= 1

InitSessions ==
    /\ now = 1
    /\ frame = [s \in Sessions |-> IdleFrame]
    /\ pre = [s \in Sessions |-> contatos]
    /\ store_calls = [s \in Sessions |-> <<>>]

\* The notes column at the start: the same text on every row.
InitNotes(tab) == \E n \in NoteTexts : \A c \in Contacts : tab[c].notes = n

\* Any assignment of stages with at most one Won per case.
InitAny ==
    /\ relacionamentos \in RelTables
    /\ contatos \in [Contacts ->
            [status : Stages, notes : NoteTexts, status_updated_at : {0}]]
    /\ InitNotes(contatos)
    /\ AtMostOneWon(contatos, relacionamentos)
    /\ InitSessions
    /\ PastGate

\* The table as the migration leaves it: every contact New.
InitNew ==
    /\ relacionamentos \in RelTables
    /\ contatos \in [Contacts ->
            [status : {"New"}, notes : NoteTexts, status_updated_at : {0}]]
    /\ InitNotes(contatos)
    /\ InitSessions
    /\ PastGate

\* ---------------------------------------------------------------- actions

\* render_detail_view: fetch_contact_details reads the row of the selected
\* contact with .single(); the status and the notes read are those the
\* detail view will show.  A failure of the read ends the run.
FetchContactDetails(s, id) ==
    /\ frame[s].pc = "idle"
    /\ \E ok \in BOOLEAN :
        LET answered == ok /\ id \in DOMAIN contatos IN
        /\ frame' = [frame EXCEPT ![s] =
              IF answered
              THEN [IdleFrame EXCEPT !.pc = "fetch_caso", !.op = "view",
                                     !.contato_id = id,
                                     !.seen_status = contatos[id].status,
                                     !.seen_notes = contatos[id].notes]
              ELSE Done([IdleFrame EXCEPT !.op = "view", !.contato_id = id],
                        Raised)]
        /\ Issue(s, "select_contact", id, answered,
                 IF answered THEN contatos[id].status ELSE "")
    /\ UNCHANGED <<contatos, relacionamentos, now, pre>>
    /\ UNCHANGED uiVars

\* fetch_contact_details, second read: the contact's relationship rows with
\* their cases, after which the detail view is shown.  A failure of the
\* read ends the run.
FetchContactCaso(s) ==
    /\ frame[s].pc = "fetch_caso"
    /\ \E ok \in BOOLEAN :
        /\ frame' = [frame EXCEPT ![s] =
              IF ok THEN [@ EXCEPT !.pc = "detail"] ELSE Done(@, Raised)]
        /\ Issue(s, "select_contact_caso", frame[s].contato_id, ok, "")
    /\ UNCHANGED <<contatos, relacionamentos, now, pre>>
    /\ UNCHANGED uiVars

\* render_detail_view: `[s for s in PIPELINE_STAGES if s != current_status]`,
\* the stages the view offers a move to (the quick buttons Won and Lost are
\* shown under the same condition).
OtherStages(current_status) == Stages \ {current_status}

\* move_to_stage(contato_id, new_status) is entered: update_contact_status
\* builds its update, reading the clock.  A session issues one call in a
\* behaviour; the states a sequence of calls leaves behind are among the
\* initial states.
MoveToStage(s, id, new_status) ==
    /\ frame' = [frame EXCEPT ![s] =
            [IdleFrame EXCEPT !.pc = "update_status", !.op = "move",
                              !.contato_id = id, !.new_status = new_status,
                              !.stamp = now]]
    /\ now' = now + 1
    /\ pre' = [pre EXCEPT ![s] = contatos]
    /\ store_calls' = [store_calls EXCEPT ![s] = <<>>]
    /\ UNCHANGED <<contatos, relacionamentos>>
    /\ UNCHANGED uiVars

\* update_contact_notes(contato_id, notes) is entered.
SaveNotes(s, id, notes) ==
    /\ frame' = [frame EXCEPT ![s] =
            [IdleFrame EXCEPT !.pc = "update_notes", !.op = "notes",
                              !.contato_id = id, !.notes = notes]]
    /\ pre' = [pre EXCEPT ![s] = contatos]
    /\ store_calls' = [store_calls EXCEPT ![s] = <<>>]
    /\ UNCHANGED <<contatos, relacionamentos, now>>
    /\ UNCHANGED uiVars

\* The cascade entered without the test of `success`.
AfterUpdate_IgnoreSuccess(f, success) ==
    IF TriggersCascade(f.new_status)
    THEN [f EXCEPT !.pc = "select_rels"]
    ELSE Done(f, Returned(success, 0))

\* move_to_stage after update_contact_status returned `success`: the cascade
\* is entered, or the call returns.
AfterUpdate(f, success) ==
    IF TriggersCascade(f.new_status)
    THEN IF success
         THEN [f EXCEPT !.pc = "select_rels"]
         ELSE Done(f, Returned(FALSE, 0))
    ELSE Done(f, Returned(success, 0))

\* update_contact_status: the update of the contact's row, with the time
\* read when it was built, which the store carries out (ok) or fails; the
\* failure is caught and reported as False.
UpdateContactStatus(s) ==
    /\ frame[s].pc = "update_status"
    /\ \E ok \in BOOLEAN :
        LET f == frame[s] IN
        /\ contatos' =
             IF ok
             THEN UpdateRow(contatos, f.contato_id,
                            StatusFields(f.new_status, f.stamp))
             ELSE contatos
        /\ frame' = [frame EXCEPT ![s] = AfterUpdate(f, ok)]
        /\ Issue(s, "update_status", f.contato_id, ok, "")
    /\ UNCHANGED <<relacionamentos, now, pre>>
    /\ UNCHANGED uiVars

\* update_contact_notes: the update of the contact's notes.
UpdateContactNotes(s) ==
    /\ frame[s].pc = "update_notes"
    /\ \E ok \in BOOLEAN :
        LET f == frame[s] IN
        /\ contatos' =
             IF ok
             THEN UpdateRow(contatos, f.contato_id, NotesFields(f.notes))
             ELSE contatos
        /\ frame' = [frame EXCEPT ![s] = Done(f, Returned(ok, 0))]
        /\ Issue(s, "update_notes", f.contato_id, ok, "")
    /\ UNCHANGED <<relacionamentos, now, pre>>
    /\ UNCHANGED uiVars

\* The frame at the loop's next store call, or returned when the loop is over.
LoopFrom(f, i) ==
    LET j == NextSibling(f.all_rels, i, f.contato_id) IN
    IF j > Len(f.all_rels)
    THEN Done(f, Returned(TRUE, f.closed_count))
    ELSE [f EXCEPT !.pc = "select_status", !.idx = j, !.status_resp = <<>>]

\* one_win_close_all, step 1: the cases of the winner; no row, return 0.
SelectWinnerRels(s) ==
    /\ frame[s].pc = "select_rels"
    /\ \E ok \in BOOLEAN :
        LET f == frame[s]
            rel_rows == SelectRelsByContato(relacionamentos, f.contato_id)
        IN
        /\ frame' = [frame EXCEPT ![s] =
                IF ~ok THEN Done(f, Raised)
                ELSE IF rel_rows = <<>> THEN Done(f, Returned(TRUE, 0))
                ELSE [f EXCEPT !.pc = "select_case_rels",
                               !.caso_id = CascadeCase(rel_rows)]]
        /\ Issue(s, "select_rels", f.contato_id, ok, "")
    /\ UNCHANGED <<contatos, relacionamentos, now, pre>>
    /\ UNCHANGED uiVars

\* one_win_close_all, step 2: the rows of the case, and the loop's entry.
SelectCaseRels(s) ==
    /\ frame[s].pc = "select_case_rels"
    /\ \E ok \in BOOLEAN :
        LET f == frame[s]
            rows == SelectRelsByCaso(relacionamentos, f.caso_id)
        IN
        /\ frame' = [frame EXCEPT ![s] =
                IF ~ok THEN Done(f, Raised)
                ELSE LoopFrom([f EXCEPT !.all_rels = rows], 1)]
        /\ Issue(s, "select_case_rels", f.caso_id, ok, "")
    /\ UNCHANGED <<contatos, relacionamentos, now, pre>>
    /\ UNCHANGED uiVars

\* one_win_close_all, step 3: the sibling's current status is read with
\* .single(), which raises when the store fails or finds no row; a sibling
\* that is Won or Lost is passed over.
SelectSiblingStatus(s) ==
    /\ frame[s].pc = "select_status"
    /\ \E ok \in BOOLEAN :
        LET f == frame[s]
            other_contato_id == f.all_rels[f.idx].contato_id
            rows == SelectStatus(contatos, other_contato_id)
            answered == ok /\ Single(rows)
        IN
        /\ frame' = [frame EXCEPT ![s] =
                IF ~answered THEN Done(f, Raised)
                ELSE IF ShouldClose(rows)
                     THEN [f EXCEPT !.pc = "build_lost", !.status_resp = rows]
                     ELSE LoopFrom(f, f.idx + 1)]
        /\ Issue(s, "select_status", other_contato_id, answered,
                 IF answered THEN rows[1].status ELSE "")
    /\ UNCHANGED <<contatos, relacionamentos, now, pre>>
    /\ UNCHANGED uiVars

\* one_win_close_all, step 3: the update of the sibling is built before it
\* is sent; the clock is read for the audit line of its notes.
BuildSiblingUpdate(s) ==
    /\ frame[s].pc = "build_lost"
    /\ frame' = [frame EXCEPT ![s] =
            [@ EXCEPT !.pc = "stamp_lost", !.audit_at = now]]
    /\ now' = now + 1
    /\ UNCHANGED <<contatos, relacionamentos, pre, store_calls>>
    /\ UNCHANGED uiVars

\* one_win_close_all, step 3: the clock is read once more, for the
\* update's status_updated_at.
StampSiblingUpdate(s) ==
    /\ frame[s].pc = "stamp_lost"
    /\ frame' = [frame EXCEPT ![s] =
            [@ EXCEPT !.pc = "update_lost", !.stamp = now]]
    /\ now' = now + 1
    /\ UNCHANGED <<contatos, relacionamentos, pre, store_calls>>
    /\ UNCHANGED uiVars

\* A failed write undoing the call's earlier writes.
AfterFailedWrite_RolledBack(tab, before) == before

\* one_win_close_all has no handler around its writes: a failed write
\* leaves the table as the earlier writes of the call left it.
AfterFailedWrite(tab, before) == tab

\* one_win_close_all, step 3: the sibling is written Lost and counted; a
\* failure of the write is not caught and ends the call.
UpdateSiblingLost(s) ==
    /\ frame[s].pc = "update_lost"
    /\ \E ok \in BOOLEAN :
        LET f == frame[s]
            other_contato_id == f.all_rels[f.idx].contato_id
        IN
        /\ contatos' =
             IF ok
             THEN UpdateRow(contatos, other_contato_id,
                            LostFields(f.status_resp[1], f.audit_at, f.stamp))
             ELSE AfterFailedWrite(contatos, pre[s])
        /\ frame' = [frame EXCEPT ![s] =
                IF ~ok THEN Done(f, Raised)
                ELSE LoopFrom([f EXCEPT !.closed_count = @ + 1], f.idx + 1)]
        /\ Issue(s, "update_lost", other_contato_id, ok, "")
    /\ UNCHANGED <<relacionamentos, now, pre>>
    /\ UNCHANGED uiVars

\* A step of the call a session runs.
Step(s) ==
    \/ UpdateContactStatus(s)
    \/ UpdateContactNotes(s)
    \/ SelectWinnerRels(s)
    \/ SelectCaseRels(s)
    \/ SelectSiblingStatus(s)
    \/ BuildSiblingUpdate(s)
    \/ StampSiblingUpdate(s)
    \/ UpdateSiblingLost(s)

\* render_detail_view: a contact's card is selected and its details read.
Select(s) ==
    \/ \E id \in Contacts : FetchContactDetails(s, id)
    \/ FetchContactCaso(s)

\* render_detail_view: a button of the detail view is clicked: a move to a
\* stage other than the status read, or notes that differ from those read
\* are saved.
Request(s) ==
    \/ \E st \in OtherStages(frame[s].seen_status) :
          /\ frame[s].pc = "detail"
          /\ MoveToStage(s, frame[s].contato_id, st)
    \/ \E n \in NoteInputs :
          /\ frame[s].pc = "detail"
          /\ n # NotesOrEmpty(frame[s].seen_notes)
          /\ SaveNotes(s, frame[s].contato_id, n)

\* One session, one call at a time, from any assignment of stages.
Next == Select("s1") \/ Request("s1") \/ Step("s1")

Spec == InitAny /\ [][Next]_vars

\* move_to_stage and update_contact_notes applied to any arguments of
\* their signatures: an id with or without a row, a text that is a stage
\* or is none, any notes.
Call(s) ==
    /\ frame[s].pc = "idle"
    /\ \/ \E id \in ContactIds, st \in StageInputs : MoveToStage(s, id, st)
       \/ \E id \in ContactIds, n \in NoteInputs : SaveNotes(s, id, n)

NextArgs == Call("s1") \/ Step("s1")

\* The two functions on every argument, one call at a time.
SpecArgs == InitAny /\ [][NextArgs]_vars

\* render_detail_view: session t, whose detail view shows the contact as it
\* was before session s moved it to Won, asks for the same move once s has
\* seen it succeed, with nothing in between.
RepeatMove(s, t) ==
    /\ frame[s].pc = "done"
    /\ frame[s].op = "move"
    /\ frame[s].new_status = "Won"
    /\ frame[s].result.kind = "returned" /\ frame[s].result.success
    /\ frame[t].pc = "detail"
    /\ frame[t].contato_id = frame[s].contato_id
    /\ frame[s].new_status \in OtherStages(frame[t].seen_status)
    /\ MoveToStage(t, frame[s].contato_id, frame[s].new_status)

\* render_detail_view: session t opens the contact session s is showing.
SelectSame(s, t) ==
    \/ /\ frame[s].pc = "detail"
       /\ FetchContactDetails(t, frame[s].contato_id)
    \/ FetchContactCaso(t)

\* A call, and after a successful move to Won the same call once more from
\* a second view of the contact.
NextRepeat ==
    \/ Select("s1")
    \/ SelectSame("s1", "s2")
    \/ Request("s1")
    \/ Step("s1")
    \/ RepeatMove("s1", "s2")
    \/ Step("s2")

SpecRepeat == InitAny /\ [][NextRepeat]_vars

\* Two sessions against the shared store, their store calls interleaved.
NextConc == \E s \in Sessions : Select(s) \/ Request(s) \/ Step(s)

SpecConc == InitNew /\ [][NextConc]_vars

\* ------------------------------------------------ the pipeline board's run

\* The texts a user types into the city filter of the board: none, and
\* " spring ".
BoardCityInputs == { <<>>, <<" ", "s", "p", "r", "i", "n", "g", " ">> }

\* The board starts on any assignment of stages, on a contatos table with
\* any of the pipeline's columns, in a session that has verified nothing.
InitBoard ==
    /\ relacionamentos \in BoardRelTables
    /\ \E st \in [Contacts -> Stages] :
          contatos = [c \in Contacts |-> ContatoRow(c, st[c], PhoneBook(c))]
    /\ casos = BoardCasos
    /\ columns \in SUBSET RequiredColumns
    /\ session_state = FreshSession
    /\ script = IdleScript
    /\ screen = BlankScreen
    /\ InitSessions

\* The board of one relative in stage New, on any phone columns.
InitPhones ==
    /\ relacionamentos \in BoardRelTables
    /\ \E ph \in [1..4 -> PhoneValues] :
          contatos = [c \in Contacts |->
                ContatoRow(c, "New", IF c = 1 THEN ph ELSE PhoneBook(c))]
    /\ casos = BoardCasos
    /\ columns = RequiredColumns
    /\ session_state = FreshSession
    /\ script = IdleScript
    /\ screen = BlankScreen
    /\ InitSessions

\* The script at the stage after `stage`, or at `over` after the last.
NextStage(sc, over) ==
    IF sc.stage < Len(PIPELINE_STAGES)
    THEN [sc EXCEPT !.stage = @ + 1]
    ELSE [sc EXCEPT !.pc = over, !.stage = 1]

\* main: a run starts, with the text the city filter's widget holds; the
\* schema check is made when the session has not verified the schema.
RunMain(text) ==
    /\ script.pc \in RunOver
    /\ script' = [IdleScript EXCEPT
                    !.pc = IF session_state.schema_verified
                           THEN "counts" ELSE "schema",
                    !.stage = 1, !.cidade_filter = text]
    /\ screen' = BlankScreen
    /\ store_calls' = [store_calls EXCEPT ![Viewer] = <<>>]
    /\ UNCHANGED <<contatos, relacionamentos, casos, columns, session_state>>
    /\ UNCHANGED engineVars

\* ensure_pipeline_schema: select('status').limit(1) answers when contatos
\* has the status column; any failure stops the run with the setup error.
EnsurePipelineSchema ==
    /\ script.pc = "schema"
    /\ \E ok \in BOOLEAN :
        LET found == ok /\ "status" \in columns IN
        /\ session_state' =
             IF found THEN [session_state EXCEPT !.schema_verified = TRUE]
             ELSE session_state
        /\ script' = [script EXCEPT !.pc = IF found THEN "counts" ELSE "stopped"]
        /\ screen' = [screen EXCEPT !.error = IF found THEN "" ELSE "setup"]
        /\ Issue(Viewer, "select_schema", NoId, found, "")
    /\ UNCHANGED <<contatos, relacionamentos, casos, columns>>
    /\ UNCHANGED engineVars

\* render_sidebar: get_stage_counts, one count query per stage, gathers
\* the counts; after the last the metrics are rendered and the filter's
\* text is stored in the session.  A query that fails ends the run with no
\* metric rendered.
GetStageCount ==
    /\ script.pc = "counts"
    /\ \E ok \in BOOLEAN :
        LET stage == PIPELINE_STAGES[script.stage]
            answered == ok /\ "status" \in columns
            counts == Append(script.counts, CountStatus(contatos, stage))
        IN
        /\ screen' = IF answered /\ script.stage = Len(PIPELINE_STAGES)
                     THEN [screen EXCEPT !.counts = counts]
                     ELSE screen
        /\ script' = IF answered
                     THEN NextStage([script EXCEPT !.counts = counts],
                                    "column_count")
                     ELSE [script EXCEPT !.pc = "raised"]
        /\ session_state' =
             IF answered /\ script.stage = Len(PIPELINE_STAGES)
             THEN [session_state EXCEPT !.filter_cidade = script.cidade_filter]
             ELSE session_state
        /\ Issue(Viewer, "count_stage", script.stage, answered, "")
    /\ UNCHANGED <<contatos, relacionamentos, casos, columns>>
    /\ UNCHANGED engineVars

\* A column of the board: its stage, the count of its header, and its
\* cards once they are fetched and rendered.
Column(stage, count, fetched, cards) ==
    [stage |-> stage, count |-> count, fetched |-> fetched, cards |-> cards]

\* render_pipeline_column: the count query, then the column's header with
\* the count is rendered.
ColumnCount ==
    /\ script.pc = "column_count"
    /\ \E ok \in BOOLEAN :
        LET stage == PIPELINE_STAGES[script.stage]
            answered == ok /\ "status" \in columns
            count == CountStatus(contatos, stage)
        IN
        /\ script' = IF answered
                     THEN [script EXCEPT !.pc = "column_cards",
                                         !.count = count]
                     ELSE [script EXCEPT !.pc = "raised"]
        /\ screen' = IF answered
                     THEN [screen EXCEPT !.board =
                            Append(@, Column(stage, count, FALSE, <<>>))]
                     ELSE screen
        /\ Issue(Viewer, "count_column", script.stage, answered, "")
    /\ UNCHANGED <<contatos, relacionamentos, casos, columns, session_state>>
    /\ UNCHANGED engineVars

\* render_pipeline_column: fetch_pipeline_cards for the column, whose cards
\* are rendered under its header; a failure of the query is not caught and
\* ends the run.
ColumnCards ==
    /\ script.pc = "column_cards"
    /\ \E ok \in BOOLEAN :
        LET stage == PIPELINE_STAGES[script.stage]
            answered == ok /\ CardColumns \subseteq columns
            cards == FetchPipelineCards(relacionamentos, contatos, casos, stage,
                                        CARDS_PER_PAGE, script.cidade_filter)
        IN
        /\ screen' = IF answered
                     THEN [screen EXCEPT !.board[Len(screen.board)] =
                            Column(stage, script.count, TRUE, cards)]
                     ELSE screen
        /\ script' = IF answered
                     THEN NextStage([script EXCEPT !.pc = "column_count"], "done")
                     ELSE [script EXCEPT !.pc = "raised"]
        /\ Issue(Viewer, "select_cards", script.stage, answered, "")
    /\ UNCHANGED <<contatos, relacionamentos, casos, columns, session_state>>
    /\ UNCHANGED engineVars

\* A session of the pipeline board: runs of main(), a store query a step.
NextBoard ==
    \/ \E text \in BoardCityInputs : RunMain(text)
    \/ EnsurePipelineSchema
    \/ GetStageCount
    \/ ColumnCount
    \/ ColumnCards

SpecBoard == InitBoard /\ [][NextBoard]_vars

SpecPhones == InitPhones /\ [][NextBoard]_vars

\* ---------------------------------------------- the case browser (legacy)

PAGE_SIZE == 20
EndOfDay == 86399           \* 'T23:59:59', in seconds

MaxCasos == 45              \* rows of casos of the case browser, at most
MaxOffset == 80             \* "Next" is followed while the offset is below

\* The columns the legacy application adds to contatos.
CrmColumns == {"contacted", "notes"}

SaoJoao == <<"S", "Ã", "O", " ", "J", "O", "Ã", "O">>

\* The casos table of n rows: cities Springfield, Fairview, São João in
\* capitals and unknown, and dates of death that are not in id order and
\* differ from row to row but for rows 5 and 6, which have one.
LegacyCasos(n) ==
    [i \in 1..n |->
        [nome |-> <<"Deceased ", ToString(i)>>,
         cidade |-> IF i % 4 = 0 THEN Fairview
                    ELSE IF i % 9 = 0 THEN Null
                    ELSE IF i % 7 = 0 THEN SaoJoao ELSE Springfield,
         data_obito |-> IF i = 6 THEN Timestamp(3, 9000)
                        ELSE Timestamp(((i * 7) % 11) + 1,
                                       (i * 1800) % 86400)]]

\* The texts a user types into the city filter of the case browser.
CityInputs ==
    { <<>>, <<" ", " ">>, <<" ", "s", "p", "r", "i", "n", "g", " ">>,
      <<"V", "I", "E", "W">>, <<"r", "_", "n">>, <<"\r", "s", "ã", "o">>,
      <<"\\", "*">> }

\* The dates a user picks in the "From" and in the "To" date input.
FromInputs == {NoDate, 4}
ToInputs == {NoDate, 8}

\* The sizes of the casos table: empty, less than a page, a page, the most.
CasoCounts == {0, 7, PAGE_SIZE, MaxCasos}

\* The place of a timestamp in the order of data_obito.
TsKey(ts) == ts[1] * 86400 + ts[2]

\* gte('data_obito', date_start.isoformat())
FromDate(ts, date_start) == TsKey(ts) >= TsKey(Timestamp(date_start, 0))

\* lte('data_obito', date_end.isoformat() + 'T23:59:59')
ToDate(ts, date_end) == TsKey(ts) <= TsKey(Timestamp(date_end, EndOfDay))

\* fetch_casos_paginated: the filters of the query, on a row of casos.
CasoSelected(caso, cidade_filter, date_start, date_end) ==
    /\ HasCityFilter(cidade_filter)
         => Ilike(caso.cidade, CityPattern(cidade_filter))
    /\ date_start # NoDate => FromDate(caso.data_obito, date_start)
    /\ date_end # NoDate => ToDate(caso.data_obito, date_end)

\* order('data_obito', desc=True): a row put in its place in sorted rows.
RECURSIVE InsertDesc(_, _)
InsertDesc(sorted, row) ==
    IF sorted = <<>> THEN <<row>>
    ELSE IF TsKey(row.data_obito) > TsKey(Head(sorted).data_obito)
         THEN <<row>> \o sorted
         ELSE <<Head(sorted)>> \o InsertDesc(Tail(sorted), row)

RECURSIVE OrderDesc(_)
OrderDesc(rows) ==
    IF rows = <<>> THEN <<>>
    ELSE InsertDesc(OrderDesc(Tail(rows)), Head(rows))

\* The orders the store may answer with: ORDER BY data_obito DESC leaves
\* the order of rows of one data_obito open, so the rows of each run of
\* equal timestamps of the sorted rows come in any order.
RECURSIVE TieOrders(_)
TieOrders(sorted) ==
    IF sorted = <<>> THEN {<<>>}
    ELSE LET k == TsKey(Head(sorted).data_obito)
             g == Cardinality({i \in DOMAIN sorted :
                                  TsKey(sorted[i].data_obito) = k})
             rest == SubSeq(sorted, g + 1, Len(sorted))
         IN  {[i \in 1..g |-> sorted[f[i]]] \o o :
                 f \in Permutations(1..g), o \in TieOrders(rest)}

\* The last position of a range taken one past its end.
RangeLast_OnePast(offset, limit) == offset + limit

\* range(offset, offset + limit - 1): the last position (from 0) asked for.
RangeLast(offset, limit) == offset + limit - 1

\* The rows of the positions offset..last (from 0) that exist.
RangeOf(rows, offset, last) ==
    SubSeq(rows, offset + 1, Min(last + 1, Len(rows)))

\* fetch_casos_paginated on a store that answers: the answers it may give,
\* each (response.data, response.count), the page of the selected rows in
\* one of their orders and their number.
FetchCasosPaginated(cs, offset, limit, cidade_filter, date_start, date_end) ==
    LET Selected(row) == CasoSelected(row, cidade_filter, date_start, date_end)
        all == [i \in DOMAIN cs |->
                  [id |-> i, nome |-> cs[i].nome, cidade |-> cs[i].cidade,
                   data_obito |-> cs[i].data_obito]]
    IN  {[data |-> RangeOf(rows, offset, RangeLast(offset, limit)),
          count |-> Len(rows)] :
            rows \in TieOrders(OrderDesc(SelectSeq(all, Selected)))}

\* "Previous" taking the browser back to its first page.
PreviousOffset_FirstPage(page_offset) == 0

\* The "Previous" button: max(0, page_offset - PAGE_SIZE).
PreviousOffset(page_offset) == Max(0, page_offset - PAGE_SIZE)

\* The "Previous" button is disabled on the first page.
PreviousDisabled(page_offset) == page_offset = 0

\* The browser on a casos table of one of the sizes and a contatos table
\* with the CRM columns or without them, in a new session whose first run of main()
\* is at its migration check.
InitBrowser ==
    /\ \E n \in CasoCounts : casos = LegacyCasos(n)
    /\ contatos = [c \in Contacts |-> ContatoRow(c, "New", PhoneBook(c))]
    /\ relacionamentos = <<>>
    /\ columns \in {{}, CrmColumns}
    /\ session_state = FreshSession
    /\ script = [IdleScript EXCEPT !.pc = "migrate"]
    /\ screen = BlankScreen
    /\ InitSessions

\* What rpc('exec_sql') may do: run the ALTER TABLE, raise with a message
\* that holds "already exists", raise otherwise (the function may not exist).
ExecSqlOutcomes == {"ok", "already exists", "error"}

\* main, first run of a session: ensure_crm_columns_exist calls exec_sql.
\* The ALTER TABLE adds the columns that are missing and main shows the
\* success; on "already exists" nothing is shown; on another error the
\* columns are tested next.
EnsureCrmColumnsExist ==
    /\ script.pc = "migrate"
    /\ ~session_state.migration_checked
    /\ \E outcome \in ExecSqlOutcomes :
        /\ columns' = IF outcome = "ok" THEN columns \cup CrmColumns
                      ELSE columns
        /\ screen' = IF outcome = "ok"
                     THEN [screen EXCEPT !.notice = "migrated"] ELSE screen
        /\ script' = [script EXCEPT
                !.pc = IF outcome = "error" THEN "select_crm" ELSE "fetch"]
        /\ session_state' = [session_state EXCEPT
                !.migration_checked = outcome # "error"]
    /\ UNCHANGED <<contatos, relacionamentos, store_calls, casos>>
    /\ UNCHANGED engineVars

\* ensure_crm_columns_exist: select('contacted, notes').limit(1); when it
\* raises, the warning with the SQL to run by hand is shown.
SelectCrmColumns ==
    /\ script.pc = "select_crm"
    /\ \E ok \in BOOLEAN :
        LET found == ok /\ CrmColumns \subseteq columns IN
        screen' = IF found THEN screen ELSE [screen EXCEPT !.notice = "manual"]
    /\ script' = [script EXCEPT !.pc = "fetch"]
    /\ session_state' = [session_state EXCEPT !.migration_checked = TRUE]
    /\ UNCHANGED <<contatos, relacionamentos, store_calls, casos, columns>>
    /\ UNCHANGED engineVars

\* A click is followed by a rerun of main(), which is then at its fetch.
Clicked(event) ==
    /\ script.pc = "shown"
    /\ script' = [script EXCEPT !.pc = "fetch", !.event = event]
    /\ UNCHANGED <<contatos, relacionamentos, store_calls, casos, columns,
                   screen>>
    /\ UNCHANGED engineVars

\* render_sidebar: the "Previous" button, enabled off the first page.
ClickPrevious ==
    /\ ~PreviousDisabled(session_state.page_offset)
    /\ session_state' = [session_state EXCEPT
                            !.page_offset = PreviousOffset(@)]
    /\ Clicked("previous")

\* "Next" disabled on the last page of the matching cases.
NextDisabled_AtEnd(page_offset, total_count) ==
    page_offset + PAGE_SIZE >= total_count

\* The "Next" button has no `disabled`; main compares the offset with the
\* total and does nothing (`pass`).
NextDisabled(page_offset, total_count) == FALSE

\* render_sidebar: the "Next" button.
ClickNext ==
    /\ ~NextDisabled(session_state.page_offset, screen.total_count)
    /\ session_state.page_offset < MaxOffset
    /\ session_state' = [session_state EXCEPT !.page_offset = @ + PAGE_SIZE]
    /\ Clicked("next")

\* render_sidebar: the "Reset All Filters" button.
ClickReset ==
    /\ session_state' = [session_state EXCEPT
                            !.page_offset = 0, !.filter_cidade = <<>>,
                            !.filter_date_start = NoDate,
                            !.filter_date_end = NoDate]
    /\ Clicked("reset")

\* render_sidebar: the user edits the filters; the rerun stores the values
\* of the inputs in the session and leaves the page offset as it is.
EditFilters(cidade_filter, date_start, date_end) ==
    /\ session_state' = [session_state EXCEPT
                            !.filter_cidade = cidade_filter,
                            !.filter_date_start = date_start,
                            !.filter_date_end = date_end]
    /\ Clicked("filters")

\* main: fetch_casos_paginated at the session's offset and filters; a
\* failure of the query is caught and shows no case and a total of 0.  The
\* notice of the migration stays on the screen of the run that made it.
FetchCasosPage ==
    /\ script.pc = "fetch"
    /\ \E ok \in BOOLEAN :
        \E response \in
                FetchCasosPaginated(casos, session_state.page_offset, PAGE_SIZE,
                                    session_state.filter_cidade,
                                    session_state.filter_date_start,
                                    session_state.filter_date_end) :
        LET shown == [BlankScreen EXCEPT
                        !.notice = IF script.event = "" THEN screen.notice
                                   ELSE ""]
        IN
        /\ screen' = IF ok
                     THEN [shown EXCEPT !.casos = response.data,
                                        !.total_count = response.count]
                     ELSE [shown EXCEPT !.error = "fetch"]
        /\ store_calls' = [store_calls EXCEPT ![Viewer] =
                <<StoreCall("select_casos", session_state.page_offset, ok, "")>>]
    /\ script' = [script EXCEPT !.pc = "shown"]
    /\ UNCHANGED <<contatos, relacionamentos, casos, columns, session_state>>
    /\ UNCHANGED engineVars

\* A session of the case browser: the migration check of its first run,
\* then clicks and edits, each followed by the fetch of the rerun.
NextBrowser ==
    \/ EnsureCrmColumnsExist
    \/ SelectCrmColumns
    \/ ClickPrevious
    \/ ClickNext
    \/ ClickReset
    \/ \E text \in CityInputs, from \in FromInputs, to \in ToInputs :
          EditFilters(text, from, to)
    \/ FetchCasosPage

SpecBrowser == InitBrowser /\ [][NextBrowser]_vars

\* ------------------------------------------------- the CRM editor (legacy)

\* The junction tables the editor reads: a case of three relatives and a
\* case of one; a case with a relative linked by two rows and a row that
\* names no contact, and a case whose only row names no contact.
EditorRelTables ==
    { <<Rel(1, 1), Rel(1, 2), Rel(1, 3), Rel(2, 4)>>,
      <<Rel(1, 1), Rel(1, 2), Rel(1, 2), Rel(1, NoId), Rel(2, NoId)>> }

\* The notes column of the legacy table at the start: NULL or a text.
EditorNoteTexts == {Null, <<"foo">>}

\* What a user leaves in a notes cell: the text shown, a new text, or the
\* cell cleared (None).
NoteEdits(notes) == {notes, <<"bar">>, Null}

\* A row of the legacy contatos table: the CRM columns.
CrmRow(contacted, notes) == [contacted |-> contacted, notes |-> notes]

\* fetch_relatives_for_caso: a relative per relationship row of the case
\* whose contact is embedded, in row order.
FetchRelativesForCaso(rels, tab, caso_id) ==
    LET Row(rel) == [contato_id |-> rel.contato_id,
                     contacted |-> tab[rel.contato_id].contacted,
                     notes |-> NotesOrEmpty(tab[rel.contato_id].notes)]
        kept == SelectSeq(rels, LAMBDA rel :
                    rel.caso_id = caso_id /\ rel.contato_id \in DOMAIN tab)
    IN [i \in DOMAIN kept |-> Row(kept[i])]

\* prepare_relatives_dataframe: a row per relative, with the key and the two
\* columns the editor lets a user change.
PrepareRelativesDataframe(relatives) ==
    [i \in DOMAIN relatives |->
        [contato_id |-> relatives[i].contato_id,
         contacted |-> relatives[i].contacted,
         notes |-> relatives[i].notes]]

\* st.data_editor with num_rows='fixed': the rows of df, each with its two
\* editable cells as the user left them.
EditedFrames(df) ==
    {e \in [DOMAIN df -> UNION {
                {[contato_id |-> df[i].contato_id, contacted |-> b, notes |-> n] :
                    b \in BOOLEAN, n \in NoteEdits(df[i].notes)} : i \in DOMAIN df}] :
        \A i \in DOMAIN df : e[i].contato_id = df[i].contato_id
                             /\ e[i].notes \in NoteEdits(df[i].notes)}

\* detect_and_save_changes: original_df[original_df['contato_id'] == id].
OriginalRows(original_df, contato_id) ==
    SelectSeq(original_df, LAMBDA row : row.contato_id = contato_id)

\* The comparison looking at the notes alone.
RowChanged_NotesOnly(edited_row, original_row) ==
    edited_row.notes # original_row.notes

\* detect_and_save_changes: contacted_changed or notes_changed.
RowChanged(edited_row, original_row) ==
    \/ edited_row.contacted # original_row.contacted
    \/ edited_row.notes # original_row.notes

\* detect_and_save_changes: the row is written when the original frame has a
\* row of its contact and it differs from the first such row.
ToSave(edited_row, original_df) ==
    LET original_rows == OriginalRows(original_df, edited_row.contato_id) IN
    /\ original_rows # <<>>
    /\ RowChanged(edited_row, original_rows[1])

\* detect_and_save_changes: the loop over edited_df up to its next write;
\* nothing is looped over when a frame is empty.
RECURSIVE NextToSave(_, _, _)
NextToSave(edited_df, original_df, i) ==
    IF edited_df = <<>> \/ original_df = <<>> THEN Len(edited_df) + 1
    ELSE IF i > Len(edited_df) THEN i
    ELSE IF ToSave(edited_df[i], original_df) THEN i
    ELSE NextToSave(edited_df, original_df, i + 1)

\* update_contato_crm_fields: the fields of the update.
CrmFields(edited_row) ==
    [contacted |-> edited_row.contacted,
     notes |-> NotesOrEmpty(edited_row.notes)]

\* st.toast: the number reported, none when no change was saved.
NoToast == 0
Toast(changes_made) == IF changes_made > 0 THEN changes_made ELSE NoToast

\* The editor's run: its position, the case shown, the row of edited_df the
\* loop is at and the count of saved changes.
EditorScript(pc, caso_id, idx, changes_made) ==
    [pc |-> pc, caso_id |-> caso_id, idx |-> idx,
     changes_made |-> changes_made]

\* What the editor holds and shows: the two frames, the toast, the errors.
EditorScreen(original_df, edited_df, toast, errors) ==
    [original_df |-> original_df, edited_df |-> edited_df,
     toast |-> toast, errors |-> errors]

\* The editor of the legacy application before a case is selected: an
\* earlier run of main has checked the migration and shown the list.
InitEditor ==
    /\ relacionamentos \in EditorRelTables
    /\ \E n \in EditorNoteTexts :
          contatos \in [Contacts -> {CrmRow(b, n) : b \in BOOLEAN}]
    /\ casos = BoardCasos
    /\ columns = CrmColumns
    /\ session_state = [FreshSession EXCEPT !.migration_checked = TRUE]
    /\ script = EditorScript("idle", NoId, 0, 0)
    /\ screen = EditorScreen(<<>>, <<>>, NoToast, 0)
    /\ InitSessions

\* render_detail_view on a selected case: the relatives are fetched, the
\* editor returns the frame with the user's edits and detect_and_save_changes
\* runs to its first write.  A failure of the fetch ends the run.
RenderDetailView(caso_id) ==
    /\ script.pc = "idle"
    /\ \E ok \in BOOLEAN :
        LET relatives ==
                FetchRelativesForCaso(relacionamentos, contatos, caso_id)
            df == PrepareRelativesDataframe(relatives)
        IN
        /\ store_calls' = [store_calls EXCEPT ![Viewer] =
                <<StoreCall("select_relatives", caso_id, ok, "")>>]
        /\ pre' = [pre EXCEPT ![Viewer] = contatos]
        /\ IF ~ok
           THEN /\ script' = EditorScript("raised", caso_id, 0, 0)
                /\ UNCHANGED screen
           ELSE IF relatives = <<>>
           THEN /\ script' = EditorScript("done", caso_id, 0, 0)
                /\ UNCHANGED screen
           ELSE \E edited_df \in EditedFrames(df) :
                LET i == NextToSave(edited_df, df, 1) IN
                /\ screen' = EditorScreen(df, edited_df, NoToast, 0)
                /\ script' = EditorScript(
                        IF i > Len(edited_df) THEN "done" ELSE "save",
                        caso_id, i, 0)
    /\ UNCHANGED <<contatos, relacionamentos, now, frame, casos, columns,
                   session_state>>

\* detect_and_save_changes at a changed row: update_contato_crm_fields
\* writes the two columns and returns True, or the store raises, an error is
\* shown and it returns False; the loop goes on to its next write, and past
\* the last row the toast reports the changes saved.
SaveRow ==
    /\ script.pc = "save"
    /\ \E ok \in BOOLEAN :
        LET edited_row == screen.edited_df[script.idx]
            changes_made == IF ok THEN script.changes_made + 1
                            ELSE script.changes_made
            i == NextToSave(screen.edited_df, screen.original_df,
                            script.idx + 1)
        IN
        /\ contatos' = IF ok
                       THEN UpdateRow(contatos, edited_row.contato_id,
                                      CrmFields(edited_row))
                       ELSE contatos
        /\ store_calls' = [store_calls EXCEPT ![Viewer] =
                Append(@, StoreCall("update_crm", edited_row.contato_id, ok,
                                    ""))]
        /\ script' = [script EXCEPT
                !.pc = IF i > Len(screen.edited_df) THEN "done" ELSE "save",
                !.idx = i, !.changes_made = changes_made]
        /\ screen' = [screen EXCEPT
                !.errors = IF ok THEN @ ELSE @ + 1,
                !.toast = IF i > Len(screen.edited_df)
                          THEN Toast(changes_made) ELSE @]
    /\ UNCHANGED <<relacionamentos, now, frame, pre, casos, columns,
                   session_state>>

\* A case is selected in the master view and its relatives are edited.
NextEditor ==
    \/ \E caso_id \in Cases : RenderDetailView(caso_id)
    \/ SaveRow

SpecEditor == InitEditor /\ [][NextEditor]_vars

\* ------------------------------------------------------------------ claims

OpenStages == {"New", "Attempted", "In Progress"}
TerminalStages == {"Won", "Lost"}

\* The call of session s is move_to_stage(…, 'Won') and has returned success.
WonReturned(s) ==
    /\ frame[s].pc = "done"
    /\ frame[s].op = "move"
    /\ frame[s].new_status = "Won"
    /\ frame[s].result = Returned(TRUE, frame[s].result.closed)

\* The other contacts linked to a case.
Siblings(caso, winner) == LinkedTo(relacionamentos, caso) \ {winner}

\* No store call of the session's call failed.
NoFault(s) == \A i \in DOMAIN store_calls[s] : store_calls[s][i].ok

\* The session's call issued a store call of one of the kinds.
Issued(s, kinds) ==
    \E i \in DOMAIN store_calls[s] : store_calls[s][i].call \in kinds

\* C1: single-winner invariant: whenever no call is running (and the store
\* failed none of the calls), every case has at most one linked contact with
\* status Won.
C1_SingleWinner ==
    (\A s \in Sessions : Idle(s) /\ NoFault(s))
    => AtMostOneWon(contatos, relacionamentos)

\* C2: cascade correctness: when move_to_stage(A, 'Won') has run alone and
\* returned, for the case A is linked to, every other contact of the case
\* that was New, Attempted or In Progress is Lost, every other contact that
\* was Won or Lost has the status it had, A is Won, and the closed count is
\* the number of contacts newly Lost.
C2_CascadeCorrect ==
    \A s \in Sessions : \A k \in Cases :
        LET A == frame[s].contato_id IN
        (WonReturned(s) /\ A \in Contacts /\ CasesOf(relacionamentos, A) = {k})
        => LET open == {c \in Siblings(k, A) : pre[s][c].status \in OpenStages}
               kept == {c \in Siblings(k, A) : pre[s][c].status \in TerminalStages}
           IN  /\ contatos[A].status = "Won"
               /\ \A c \in open : contatos[c].status = "Lost"
               /\ \A c \in kept : contatos[c].status = pre[s][c].status
               /\ frame[s].result.closed = Cardinality(open)

\* C2 witness: {A:New, B:Attempted, C:Won, D:Lost} on one case became
\* {A:Won, B:Lost, C:Won, D:Lost} with closed count 1.
C2_Witness ==
    /\ WonReturned("s1")
    /\ frame["s1"].contato_id = 1
    /\ LinkedTo(relacionamentos, 1) = {1, 2, 3, 4}
    /\ [c \in Contacts |-> pre["s1"][c].status]
         = <<"New", "Attempted", "Won", "Lost">>
    /\ [c \in Contacts |-> contatos[c].status]
         = <<"Won", "Lost", "Won", "Lost">>
    /\ frame["s1"].result.closed = 1

\* C3: notes append, not overwrite: a sibling the cascade of a call set to
\* Lost has the notes it had before the call followed by the audit line.
C3_NotesAppended ==
    \A s \in Sessions : \A c \in Contacts :
        ( /\ frame[s].op = "move"
          /\ frame[s].new_status = "Won"
          /\ c # frame[s].contato_id
          /\ pre[s][c].status \in OpenStages
          /\ contatos[c].status = "Lost" )
        => \E t \in 1..now : contatos[c].notes = pre[s][c].notes \o AuditLine(t)

\* The session's cascade read the contact's status as Won.
SawWon(s, c) ==
    \E i \in DOMAIN store_calls[s] :
        store_calls[s][i] = StoreCall("select_status", c, TRUE, "Won")

\* The session ran move_to_stage(…, 'Won') to its return.
WonCallOver(s) ==
    /\ frame[s].pc = "done"
    /\ frame[s].op = "move"
    /\ frame[s].new_status = "Won"
    /\ frame[s].result.kind = "returned"

\* C4: two concurrent moves to Won of two contacts of one case, interleaved
\* so that each cascade reads the other contact after it was written Won,
\* both report success and both contacts are left Won.
C4_BothWon ==
    \A s, t \in Sessions :
        LET a == frame[s].contato_id
            b == frame[t].contato_id
        IN  ( /\ s # t /\ a # b
              /\ WonCallOver(s) /\ WonCallOver(t)
              /\ SawWon(s, b) /\ SawWon(t, a) )
            => /\ frame[s].result.success /\ frame[t].result.success
               /\ contatos[a].status = "Won"
               /\ contatos[b].status = "Won"

\* C4 witness: both calls returned success and one case has two Won contacts.
C4_Witness ==
    /\ WonReturned("s1") /\ WonReturned("s2")
    /\ frame["s1"].contato_id = 1 /\ frame["s2"].contato_id = 2
    /\ {1, 2} \subseteq LinkedTo(relacionamentos, 1)
    /\ SawWon("s1", 2) /\ SawWon("s2", 1)
    /\ contatos[1].status = "Won" /\ contatos[2].status = "Won"
    /\ ~AtMostOneWon(contatos, relacionamentos)

\* C5: a move to Won of a contact linked to several cases that returned
\* (no store call failing) has closed, on every linked case, every other
\* contact that was not Won or Lost, and its closed count is their number.
C5_EveryLinkedCase ==
    \A s \in Sessions :
        LET A == frame[s].contato_id IN
        (WonReturned(s) /\ NoFault(s) /\ A \in Contacts)
        => LET sib == UNION {Siblings(k, A) : k \in CasesOf(relacionamentos, A)}
               open == {c \in sib : pre[s][c].status \notin TerminalStages}
           IN  /\ \A c \in open : contatos[c].status = "Lost"
               /\ frame[s].result.closed = Cardinality(open)

\* C6: in every interleaving, a cascade's write of Lost lands on a contact
\* whose stored status at that moment is neither Won nor Lost.
C6_NoTerminalOverwrite ==
    [][\A s \in Sessions :
          ( /\ frame[s].pc = "update_lost"
            /\ Len(store_calls'[s]) = Len(store_calls[s]) + 1
            /\ store_calls'[s][Len(store_calls'[s])].ok )
          => contatos[frame[s].all_rels[frame[s].idx].contato_id].status
                \notin TerminalStages]_vars

\* C7: when the winner's status write of a move to Won fails, the call has
\* returned failure, that write is the only store call it issued (no
\* relationship read, no sibling write), and every contact is as before.
C7_FailedWinnerWrite ==
    \A s \in Sessions :
        ( /\ frame[s].op = "move"
          /\ frame[s].new_status = "Won"
          /\ store_calls[s] # <<>>
          /\ ~store_calls[s][1].ok )
        => /\ frame[s].pc = "done"
           /\ frame[s].result = Returned(FALSE, 0)
           /\ Len(store_calls[s]) = 1
           /\ store_calls[s][1].call = "update_status"
           /\ contatos = pre[s]

\* C7 witness: the winner's write failed on a contact with an open sibling.
C7_Witness ==
    /\ frame["s1"].op = "move"
    /\ frame["s1"].new_status = "Won"
    /\ frame["s1"].contato_id = 1
    /\ store_calls["s1"] = <<StoreCall("update_status", 1, FALSE, "")>>
    /\ frame["s1"].result = Returned(FALSE, 0)
    /\ contatos[1].status = "New"
    /\ \E c \in Siblings(1, 1) : contatos[c].status \in OpenStages

\* C8: a move to New, Attempted, In Progress or Lost that is over has
\* returned, issued the one status write and no cascade call, left the
\* contact with the target status when the write succeeded, and left the
\* contact's notes and every other contact's status and notes as they were.
C8_NoCascade ==
    \A s \in Sessions :
        LET A == frame[s].contato_id
            f == frame[s]
        IN  ( /\ f.pc = "done" /\ f.op = "move" /\ A \in Contacts
              /\ f.new_status \in {"New", "Attempted", "In Progress", "Lost"} )
            => /\ f.result.kind = "returned"
               /\ f.result.success => contatos[A].status = f.new_status
               /\ contatos[A].notes = pre[s][A].notes
               /\ \A c \in Contacts \ {A} :
                      /\ contatos[c].status = pre[s][c].status
                      /\ contatos[c].notes = pre[s][c].notes
               /\ Len(store_calls[s]) = 1
               /\ store_calls[s][1].call = "update_status"

\* C8 witness: a manual move to Lost beside an open sibling, notes kept.
C8_Witness ==
    /\ frame["s1"].pc = "done" /\ frame["s1"].op = "move"
    /\ frame["s1"].new_status = "Lost" /\ frame["s1"].contato_id = 1
    /\ frame["s1"].result = Returned(TRUE, 0)
    /\ pre["s1"][1].status = "New" /\ contatos[1].status = "Lost"
    /\ contatos[1].notes = <<"foo">>
    /\ \E c \in Siblings(1, 1) : contatos[c].status \in OpenStages

\* C9: a target stage outside the five stages is rejected before any store
\* call (none is issued, even when the store would carry it out), so every
\* stored status is one of the five stages.
C9_StageValidated ==
    /\ \A c \in Contacts : contatos[c].status \in Stages
    /\ \A s \in Sessions :
          (frame[s].op = "move" /\ frame[s].new_status \notin Stages /\ NoFault(s))
          => store_calls[s] = <<>>

\* C10: a call naming a contact that is not in the store does not report
\* success and issues no update and no cascade call.
C10_NotFound ==
    \A s \in Sessions :
        (frame[s].pc = "done" /\ NoFault(s) /\ frame[s].contato_id \notin Contacts)
        => /\ ~(frame[s].result.kind = "returned" /\ frame[s].result.success)
           /\ ~Issued(s, {"update_status", "update_notes", "update_lost",
                          "select_rels", "select_case_rels", "select_status"})

\* C11: update_contact_notes(contact, text) that is over has returned and
\* issued the one notes write; when the write succeeded the contact's notes
\* are exactly the text (nothing of the earlier notes is kept); the contact's
\* status and timestamp and every other contact are as they were.
C11_NotesReplaced ==
    \A s \in Sessions :
        LET A == frame[s].contato_id
            f == frame[s]
        IN  (f.pc = "done" /\ f.op = "notes" /\ A \in Contacts)
            => /\ f.result.kind = "returned"
               /\ contatos[A].notes =
                    IF f.result.success THEN f.notes ELSE pre[s][A].notes
               /\ contatos[A].status = pre[s][A].status
               /\ contatos[A].status_updated_at = pre[s][A].status_updated_at
               /\ \A c \in Contacts \ {A} : contatos[c] = pre[s][c]
               /\ Len(store_calls[s]) = 1
               /\ store_calls[s][1].call = "update_notes"

\* C11 witness: notes "foo" replaced by "bar" on a contact with open siblings.
C11_Witness ==
    /\ frame["s1"].pc = "done" /\ frame["s1"].op = "notes"
    /\ frame["s1"].contato_id = 1
    /\ frame["s1"].result = Returned(TRUE, 0)
    /\ pre["s1"][1].notes = <<"foo">>
    /\ contatos[1].notes = <<"bar">>
    /\ \E c \in Siblings(1, 1) : contatos[c].status \in OpenStages

\* The session's call issued a sibling write that the store failed.
SiblingWriteFailed(s) ==
    \E i \in DOMAIN store_calls[s] :
        store_calls[s][i].call = "update_lost" /\ ~store_calls[s][i].ok

\* The sibling writes of the session's call that the store carried out.
SiblingWritesDone(s) ==
    {i \in DOMAIN store_calls[s] :
        store_calls[s][i].call = "update_lost" /\ store_calls[s][i].ok}

\* C12: when a sibling's write fails during the cascade of a move to Won,
\* the call still returns success with a closed count that counts the
\* successful sibling writes, and the write has been attempted for every
\* other contact of the case that was not Won or Lost.
C12_SiblingFailureSkipped ==
    \A s \in Sessions :
        LET f == frame[s] IN
        ( /\ f.pc = "done" /\ f.op = "move" /\ f.new_status = "Won"
          /\ SiblingWriteFailed(s) )
        => /\ f.result = Returned(TRUE, Cardinality(SiblingWritesDone(s)))
           /\ \A c \in Siblings(store_calls[s][3].id, f.contato_id) :
                 pre[s][c].status \in OpenStages
                 => \E i \in DOMAIN store_calls[s] :
                        /\ store_calls[s][i].call = "update_lost"
                        /\ store_calls[s][i].id = c

\* C13: a move to Won of a contact with no other contact on any of its
\* cases (or with no relationship row at all) that is over has changed no
\* other contact, and with no store fault has returned success with a closed
\* count of 0.
C13_LoneWinner ==
    \A s \in Sessions :
        LET A == frame[s].contato_id
            f == frame[s]
        IN  ( /\ f.pc = "done" /\ f.op = "move" /\ f.new_status = "Won"
              /\ A \in Contacts
              /\ \A k \in CasesOf(relacionamentos, A) : Siblings(k, A) = {} )
            => /\ \A c \in Contacts \ {A} : contatos[c] = pre[s][c]
               /\ NoFault(s) => /\ f.result = Returned(TRUE, 0)
                                /\ contatos[A].status = "Won"

\* C13 witness: the winner alone on its case, beside open contacts of
\* another case.
C13_Witness ==
    /\ WonReturned("s1") /\ NoFault("s1")
    /\ frame["s1"].contato_id = 3
    /\ CasesOf(relacionamentos, 3) = {2}
    /\ Siblings(2, 3) = {}
    /\ frame["s1"].result.closed = 0
    /\ contatos[3].status = "Won"
    /\ contatos[1].status = "New" /\ contatos[2].status = "Attempted"

\* The rows of the junction table that name the contact, by index.
RowsOf(c) == {i \in DOMAIN relacionamentos : relacionamentos[i].contato_id = c}

\* The first row of the junction table that names the contact.
FirstRowOf(c) ==
    relacionamentos[CHOOSE i \in RowsOf(c) : \A j \in RowsOf(c) : i <= j]

\* The run of main() applied a city filter to its card queries.
Filtered ==
    \E i \in DOMAIN script.cidade_filter : ~IsSpace(script.cidade_filter[i])

\* C14: in every column the board has rendered, no two cards are of one
\* contact, and a card carries the relationship label and the case of the
\* first relationship row of its contact (under a city filter, that case or
\* none).
C14_CardsDeduplicated ==
    \A j \in DOMAIN screen.board :
        LET cards == screen.board[j].cards IN
        /\ \A a, b \in DOMAIN cards :
              cards[a].contato_id = cards[b].contato_id => a = b
        /\ \A a \in DOMAIN cards :
              LET first == FirstRowOf(cards[a].contato_id) IN
              /\ cards[a].tipo_parentesco = first.tipo_parentesco
              /\ cards[a].caso_id \in
                    IF Filtered THEN {first.caso_id, NoId} ELSE {first.caso_id}

\* C14 witness: a relative in New linked to case 1 by two rows, "Filho"
\* before "Conjuge", has one card in the column New, labelled "Filho".
C14_Witness ==
    /\ script.pc = "done" /\ ~Filtered
    /\ Cardinality(RowsOf(2)) = 2
    /\ contatos[2].status = "New"
    /\ \E a \in DOMAIN screen.board[1].cards :
          /\ screen.board[1].cards[a].contato_id = 2
          /\ screen.board[1].cards[a].tipo_parentesco = <<"Filho">>
          /\ screen.board[1].cards[a].caso_id = 1

\* The contact has no linked case: no row of the junction table links it
\* to a case.
Unlinked(c) == \A i \in RowsOf(c) : relacionamentos[i].caso_id = NoId

\* C15: in every column whose cards the board has rendered, a contact of
\* the column's stage with no linked case has exactly one card, and the card
\* shows "No linked case", an empty city and an empty date.
C15_UnlinkedContactShown ==
    \A c \in Contacts : \A j \in DOMAIN screen.board :
        LET col == screen.board[j]
            mine == {a \in DOMAIN col.cards : col.cards[a].contato_id = c}
        IN  (col.fetched /\ Unlinked(c) /\ contatos[c].status = col.stage)
            => /\ Cardinality(mine) = 1
               /\ \A a \in mine :
                     /\ col.cards[a].caso_nome = NoLinkedCase
                     /\ col.cards[a].caso_cidade = <<>>
                     /\ col.cards[a].caso_data_obito = <<>>

\* The store calls of the engine's reads that a run of main() issues.
BoardReads == {"count_stage", "count_column", "select_cards"}

\* C16: in a session whose contatos table lacks one of status, notes and
\* status_updated_at, no run of main() issues a count or a card read, and a
\* run that is over has stopped with the setup error.
C16_SchemaGate ==
    ~(RequiredColumns \subseteq columns)
    => /\ ~Issued(Viewer, BoardReads)
       /\ script.pc \in RunOver \ {"idle"}
            => script.pc = "stopped" /\ screen.error = "setup"

\* A phone slot is filled: not NULL, and with a character that is no space.
Filled(phone) == phone # Null /\ \E i \in DOMAIN phone : ~IsSpace(phone[i])

\* The four phone slots of a contact of the store, in order 1 to 4.
SlotsOf(c) ==
    <<contatos[c].telefone_1, contatos[c].telefone_2,
      contatos[c].telefone_3, contatos[c].telefone_4>>

\* The filled slots from slot i on, ", " between one and the next.
RECURSIVE JoinedFrom(_, _)
JoinedFrom(slots, i) ==
    IF i > Len(slots) THEN <<>>
    ELSE IF ~Filled(slots[i]) THEN JoinedFrom(slots, i + 1)
    ELSE IF \E j \in (i + 1)..Len(slots) : Filled(slots[j])
         THEN slots[i] \o <<", ">> \o JoinedFrom(slots, i + 1)
         ELSE slots[i]

\* C20: on every card the board has rendered, the primary phone is the
\* first of the contact's four slots, in order 1 to 4, that is filled, or
\* "No phone" when none is, and the all-phones field is the filled slots in
\* slot order joined by ", ".
C20_PhoneFields ==
    \A j \in DOMAIN screen.board : \A a \in DOMAIN screen.board[j].cards :
        LET card == screen.board[j].cards[a]
            slots == SlotsOf(card.contato_id)
            filled == {i \in DOMAIN slots : Filled(slots[i])}
        IN  /\ card.phone_display =
                 IF filled = {} THEN NoPhone
                 ELSE slots[CHOOSE i \in filled : \A k \in filled : i <= k]
            /\ card.all_phones = JoinedFrom(slots, 1)

\* C20 witness: slots NULL, blank, " 555-0102", "555-0101" show the third
\* slot as primary phone and the third and fourth joined.
C20_Witness ==
    /\ SlotsOf(1) = <<Null, <<" ">>, <<" ", "555-0102">>, <<"555-0101">>>>
    /\ screen.board # <<>>
    /\ \E a \in DOMAIN screen.board[1].cards :
          /\ screen.board[1].cards[a].contato_id = 1
          /\ screen.board[1].cards[a].phone_display = <<" ", "555-0102">>
          /\ screen.board[1].cards[a].all_phones
                = <<" ", "555-0102", ", ", "555-0101">>

\* The text holds a character that is no space.
TextGiven(text) == \E i \in DOMAIN text : ~IsSpace(text[i])

\* The text contains the other as a substring, letter case apart.
ContainsFolded(text, sub) ==
    \E k \in 0..(Len(text) - Len(sub)) :
        SubSeq(FoldText(text), k + 1, k + Len(sub)) = FoldText(sub)

\* The case's city contains the trimmed filter text; no text, every case.
CityHas(caso, text) ==
    TextGiven(text)
    => caso.cidade # Null /\ ContainsFolded(caso.cidade, Strip(text))

\* The case's date of death is in the range of dates, both ends included.
InDates(caso, from, to) ==
    /\ from # NoDate => caso.data_obito[1] >= from
    /\ to # NoDate => caso.data_obito[1] <= to

\* The cases the session's filters describe.
Matching ==
    {i \in DOMAIN casos :
        /\ CityHas(casos[i], session_state.filter_cidade)
        /\ InDates(casos[i], session_state.filter_date_start,
                   session_state.filter_date_end)}

\* The browser shows the page the store answered with.
PageShown ==
    /\ script.pc = "shown"
    /\ store_calls[Viewer] # <<>>
    /\ store_calls[Viewer][1].call = "select_casos"
    /\ store_calls[Viewer][1].ok

\* The filter text has no character that a LIKE pattern gives a meaning.
PatternFree(text) ==
    \A i \in DOMAIN text : text[i] \notin AnyRun \cup AnyOne \cup {"*", Escape}

\* C17: the page the store answered with has the matching cases at the
\* positions offset..offset+limit-1 of an order by date of death, latest
\* first (the row at a position has before it the cases of a later date
\* and none of an earlier one, and no case comes twice), and the total is
\* the number of matching cases; the page has
\* min(limit, max(0, total - offset)) rows.
C17_PageOfCases ==
    (PageShown /\ PatternFree(session_state.filter_cidade))
    => LET rows == screen.casos
           total == Cardinality(Matching)
           offset == session_state.page_offset
           Later(j) == {i \in Matching :
                TsKey(casos[i].data_obito) > TsKey(rows[j].data_obito)}
           NotEarlier(j) == {i \in Matching :
                TsKey(casos[i].data_obito) >= TsKey(rows[j].data_obito)}
       IN  /\ screen.total_count = total
           /\ Len(rows) = Min(PAGE_SIZE, Max(0, total - offset))
           /\ \A j \in DOMAIN rows :
                 /\ rows[j].id \in Matching
                 /\ Cardinality(Later(j)) <= offset + j - 1
                 /\ offset + j - 1 < Cardinality(NotEarlier(j))
           /\ \A j, k \in DOMAIN rows : rows[j].id = rows[k].id => j = k

\* C17 witness: of 45 cases, the page at offset 40 has 5 rows, total 45.
C17_Witness ==
    /\ PageShown
    /\ Len(casos) = 45
    /\ ~TextGiven(session_state.filter_cidade)
    /\ session_state.filter_date_start = NoDate
    /\ session_state.filter_date_end = NoDate
    /\ session_state.page_offset = 40
    /\ Len(screen.casos) = 5
    /\ screen.total_count = 45

\* C18: the page offset is never negative, and a click on "Previous" sets
\* it to max(0, offset - PAGE_SIZE).
C18_OffsetNeverNegative ==
    /\ [](session_state.page_offset >= 0)
    /\ [][(script.pc = "shown" /\ script'.pc = "fetch"
              /\ script'.event = "previous")
          => session_state'.page_offset =
                IF session_state.page_offset > PAGE_SIZE
                THEN session_state.page_offset - PAGE_SIZE ELSE 0]_vars

\* C18 witness: "Previous" clicked on the third page, now the second.
C18_Witness ==
    /\ script.pc = "fetch" /\ script.event = "previous"
    /\ session_state.page_offset = PAGE_SIZE

\* C19: the page the store answered with holds only cases whose city
\* contains the trimmed filter text, letter case apart, and its total is
\* the number of such cases (in the range of dates); with no text or a
\* blank text, every case.
C19_CityFilterExact ==
    PageShown
    => /\ screen.total_count = Cardinality(Matching)
       /\ \A j \in DOMAIN screen.casos : screen.casos[j].id \in Matching

\* C21: a card read that the store fails gives the column an empty card
\* list: the run goes on and the column of that stage is rendered with no
\* card.
C21_ReadFailureEmpty ==
    \A i \in DOMAIN store_calls[Viewer] :
        LET call == store_calls[Viewer][i] IN
        (call.call = "select_cards" /\ ~call.ok)
        => /\ script.pc # "raised"
           /\ \E j \in DOMAIN screen.board :
                 /\ screen.board[j].stage = PIPELINE_STAGES[call.id]
                 /\ screen.board[j].fetched
                 /\ screen.board[j].cards = <<>>

\* The counts are one per stage, in stage order, each the number of
\* contacts whose stored status is the stage, and five counts add up to the
\* number of contacts.
CountsByStage(counts) ==
    /\ Len(counts) <= Len(PIPELINE_STAGES)
    /\ \A i \in DOMAIN counts :
          \E members \in SUBSET Contacts :
              /\ \A c \in Contacts :
                    c \in members <=> contatos[c].status = PIPELINE_STAGES[i]
              /\ counts[i] = Cardinality(members)
    /\ Len(counts) = Len(PIPELINE_STAGES)
         => counts[1] + counts[2] + counts[3] + counts[4] + counts[5]
              = Cardinality(Contacts)

\* C22: the counts get_stage_counts gathers are one per stage, in stage
\* order, each the number of contacts whose stored status is the stage; the
\* five counts add up to the number of contacts, and the sidebar shows the
\* five that were gathered, or none.
C22_CountByStage ==
    /\ CountsByStage(script.counts)
    /\ screen.counts # <<>>
         => /\ Len(screen.counts) = Len(PIPELINE_STAGES)
            /\ screen.counts = script.counts

\* C22 witness: the five counts 2, 1, 0, 1, 0 of two New, one Attempted and
\* one Won contact.
C22_Witness ==
    /\ screen.counts = <<2, 1, 0, 1, 0>>
    /\ Cardinality({c \in Contacts : contatos[c].status = "New"}) = 2
    /\ Cardinality({c \in Contacts : contatos[c].status = "Won"}) = 1

\* The store calls of the session's call, in the order they were issued.
Log(s) == store_calls[s]

\* C23: the store calls of a move to Won are, in order: the winner's
\* status write, the read of the winner's relationships, the read of the
\* case's relationships, then status reads of siblings, each followed at
\* once by that sibling's Lost write or by the next status read; a Lost
\* write follows the status read of the same sibling, and none is issued
\* unless the winner's write was carried out.
C23_CallOrder ==
    \A s \in Sessions :
        (frame[s].op = "move" /\ frame[s].new_status = "Won")
        => \A i \in DOMAIN Log(s) :
              /\ i = 1 <=> Log(s)[i].call = "update_status"
              /\ i = 2 <=> Log(s)[i].call = "select_rels"
              /\ i = 3 <=> Log(s)[i].call = "select_case_rels"
              /\ i > 3 <=> Log(s)[i].call \in {"select_status", "update_lost"}
              /\ i > 1 => Log(s)[i - 1].ok
              /\ Log(s)[i].call = "update_lost"
                    => /\ Log(s)[i - 1].call = "select_status"
                       /\ Log(s)[i - 1].id = Log(s)[i].id
                       /\ Log(s)[1].ok
                       /\ Log(s)[1].id = frame[s].contato_id

\* C23 witness: a move to Won of contact 1 that closed contacts 2 and 3.
C23_Witness ==
    /\ WonReturned("s1") /\ frame["s1"].contato_id = 1
    /\ [i \in DOMAIN Log("s1") |-> <<Log("s1")[i].call, Log("s1")[i].id>>]
         = << <<"update_status", 1>>, <<"select_rels", 1>>,
              <<"select_case_rels", 1>>, <<"select_status", 2>>,
              <<"update_lost", 2>>, <<"select_status", 3>>,
              <<"update_lost", 3>>, <<"select_status", 4>>,
              <<"update_lost", 4>> >>

\* C24: when a sibling write of a move to Won has failed, the winner is
\* Won and every sibling the call had written Lost is Lost: no write of the
\* call is undone.
C24_NoRollback ==
    \A s \in Sessions :
        LET f == frame[s] IN
        ( /\ f.pc = "done" /\ f.op = "move" /\ f.new_status = "Won"
          /\ f.contato_id \in Contacts
          /\ SiblingWriteFailed(s) )
        => /\ contatos[f.contato_id].status = "Won"
           /\ \A i \in SiblingWritesDone(s) :
                 contatos[Log(s)[i].id].status = "Lost"

\* C24 witness: contact 2 was closed, the write of contact 3 failed.
C24_Witness ==
    /\ frame["s1"].pc = "done" /\ frame["s1"].contato_id = 1
    /\ frame["s1"].new_status = "Won"
    /\ SiblingWriteFailed("s1")
    /\ SiblingWritesDone("s1") # {}
    /\ pre["s1"][1].status = "New" /\ pre["s1"][2].status = "New"
    /\ contatos[1].status = "Won" /\ contatos[2].status = "Lost"
    /\ contatos[3].status = "New"

\* C25: a move of a contact to one of the five stages whose store calls
\* were all carried out has returned success and left the contact in the
\* target stage, whatever stage the contact was in, Won and Lost included.
C25_NoTerminalSource ==
    \A s \in Sessions :
        LET f == frame[s] IN
        ( /\ f.pc = "done" /\ f.op = "move" /\ f.new_status \in Stages
          /\ f.contato_id \in Contacts /\ NoFault(s) )
        => /\ f.result.kind = "returned" /\ f.result.success
           /\ contatos[f.contato_id].status = f.new_status

\* C25 witness: a Won contact moved back to New.
C25_Witness ==
    /\ frame["s1"].pc = "done" /\ frame["s1"].op = "move"
    /\ frame["s1"].contato_id = 1 /\ frame["s1"].new_status = "New"
    /\ frame["s1"].result = Returned(TRUE, 0)
    /\ pre["s1"][1].status = "Won"
    /\ contatos[1].status = "New"

\* C26: on every page shown "Next" can be clicked, whatever the total, and
\* a click adds the page size to the offset; a page at an offset that has
\* reached the total is empty.
C26_ForwardUnclamped ==
    /\ [](script.pc = "shown" /\ session_state.page_offset < MaxOffset
            => ENABLED ClickNext)
    /\ [][(script.pc = "shown" /\ script'.pc = "fetch"
              /\ script'.event = "next")
          => session_state'.page_offset
                = session_state.page_offset + PAGE_SIZE]_vars
    /\ [](PageShown /\ session_state.page_offset >= screen.total_count
            => screen.casos = <<>>)

\* C26 witness: of 7 cases, "Next" has led to offset 40, past the total;
\* the page shown is empty.
C26_Witness ==
    /\ PageShown /\ script.event = "next"
    /\ Len(casos) = 7 /\ screen.total_count = 7
    /\ session_state.page_offset = 40
    /\ screen.casos = <<>>

\* C27: a store write of a contact's status (the update of move_to_stage
\* and the Lost write of the cascade) stamps the contact's
\* status_updated_at, in the same write, with the time read when the
\* update was built; the notes write leaves every status_updated_at as it
\* was.
C27_StatusWritesStamped ==
    [][\A s \in Sessions :
          Len(Log(s)') = Len(Log(s)) + 1
          => LET call == Log(s)'[Len(Log(s)')] IN
             /\ ( /\ call.call \in {"update_status", "update_lost"}
                  /\ call.ok /\ call.id \in Contacts )
                => contatos'[call.id].status_updated_at = frame[s].stamp
             /\ call.call = "update_notes"
                => \A c \in Contacts :
                      contatos'[c].status_updated_at
                         = contatos[c].status_updated_at]_vars

\* C27 witness: the winner stamped at time 1, a closed sibling with the
\* audit line of time 2 stamped at time 3, a sibling left alone unstamped.
C27_Witness ==
    /\ WonReturned("s1") /\ frame["s1"].contato_id = 1
    /\ contatos[1].status_updated_at = 1
    /\ contatos[2].status = "Lost" /\ contatos[2].status_updated_at = 3
    /\ contatos[2].notes = AuditLine(2)
    /\ contatos[3].status = "Won" /\ contatos[3].status_updated_at = 0

\* The two sessions' calls are moves to Won of two contacts of one case,
\* both over, the winner's write of each carried out.
TwoWinners(s, t) ==
    /\ s # t
    /\ frame[s].pc = "done" /\ frame[t].pc = "done"
    /\ frame[s].op = "move" /\ frame[t].op = "move"
    /\ frame[s].new_status = "Won" /\ frame[t].new_status = "Won"
    /\ frame[s].contato_id \in Contacts /\ frame[t].contato_id \in Contacts
    /\ frame[s].contato_id # frame[t].contato_id
    /\ \E k \in Cases :
          {frame[s].contato_id, frame[t].contato_id}
             \subseteq LinkedTo(relacionamentos, k)
    /\ Log(s)[1].ok /\ Log(t)[1].ok

\* C28: when two moves to Won of two contacts of one case have run
\* concurrently and are over, one of the two contacts at least is Won.
C28_NotBothLost ==
    \A s, t \in Sessions :
        TwoWinners(s, t)
        => \/ contatos[frame[s].contato_id].status = "Won"
           \/ contatos[frame[t].contato_id].status = "Won"

\* C28 witness: the cascade of contact 1 read contact 2 as New and closed
\* it after contact 2 had been written Won: 1 is Won, 2 is Lost.
C28_Witness ==
    /\ TwoWinners("s1", "s2")
    /\ frame["s1"].contato_id = 1 /\ frame["s2"].contato_id = 2
    /\ WonReturned("s1") /\ WonReturned("s2")
    /\ SawWon("s2", 1)
    /\ contatos[1].status = "Won" /\ contatos[2].status = "Lost"

\* The number of audit lines in a text of notes.
AuditLines(notes) ==
    Cardinality({i \in DOMAIN notes : notes[i] = AuditLine(0)[1]})

\* C29: a move to Won repeated right after it returned success changes the
\* status and the notes of no contact, and with every store call carried
\* out it returns success with a closed count of 0.
C29_RepeatIdempotent ==
    LET f == frame["s2"] IN
    (f.pc = "done" /\ f.op = "move" /\ f.new_status = "Won")
    => /\ \A c \in Contacts :
             /\ contatos[c].status = pre["s2"][c].status
             /\ contatos[c].notes = pre["s2"][c].notes
       /\ NoFault("s2") => f.result = Returned(TRUE, 0)

\* C29 witness: the first call closed two siblings, the second none; each
\* closed sibling has the one audit line.
C29_Witness ==
    /\ WonReturned("s1") /\ WonReturned("s2") /\ NoFault("s2")
    /\ frame["s1"].contato_id = 1 /\ frame["s2"].contato_id = 1
    /\ frame["s1"].result.closed >= 2
    /\ frame["s2"].result.closed = 0
    /\ contatos[2].status = "Lost" /\ AuditLines(contatos[2].notes) = 1
    /\ Len(Log("s2")) > 3

\* The store calls of kind `kind` that the session's call issued for the
\* contact and the store carried out, by index.
CallsOn(s, kind, c) ==
    {i \in DOMAIN Log(s) :
        Log(s)[i].call = kind /\ Log(s)[i].id = c /\ Log(s)[i].ok}

\* C30: in a move to Won that ran alone and returned, a sibling of the
\* cascade's case is written Lost once at most, however many rows link it,
\* and once when it was not Won or Lost; the closed count is the number of
\* siblings closed; a sibling closed has exactly one audit line in its
\* notes; no status read and no write of the cascade names the winner.
C30_ClosedOnce ==
    \A s \in Sessions :
        LET A == frame[s].contato_id IN
        (WonReturned(s) /\ NoFault(s) /\ A \in Contacts /\ Len(Log(s)) >= 3)
        => LET sib == Siblings(Log(s)[3].id, A) IN
           /\ \A c \in sib :
                 /\ Cardinality(CallsOn(s, "update_lost", c))
                       = IF pre[s][c].status \in OpenStages THEN 1 ELSE 0
                 /\ CallsOn(s, "update_lost", c) # {}
                       => AuditLines(contatos[c].notes) = 1
           /\ frame[s].result.closed
                 = Cardinality({c \in sib : CallsOn(s, "update_lost", c) # {}})
           /\ CallsOn(s, "select_status", A) = {}
           /\ CallsOn(s, "update_lost", A) = {}

\* C30 witness: contact 2, linked to the case by two rows, was read twice,
\* the second time as Lost, and closed once, counted once.
C30_Witness ==
    /\ WonReturned("s1") /\ NoFault("s1") /\ frame["s1"].contato_id = 1
    /\ Cardinality({i \in DOMAIN relacionamentos :
            relacionamentos[i] = Rel(1, 2)}) = 2
    /\ Cardinality(CallsOn("s1", "select_status", 2)) = 2
    /\ pre["s1"][2].status = "New" /\ SawWon("s1", 2) = FALSE
    /\ \E i \in CallsOn("s1", "select_status", 2) : Log("s1")[i].seen = "Lost"
    /\ Cardinality(CallsOn("s1", "update_lost", 2)) = 1
    /\ frame["s1"].result.closed = 1
    /\ AuditLines(contatos[2].notes) = 1

\* Contacts that share the case of some relationship row with the contact.
SharingCase(winner) ==
    UNION {LinkedTo(relacionamentos, k) : k \in CasesOf(relacionamentos, winner)}

\* The session's call is a move to Won, started and not yet forgotten.
MovingToWon(s) ==
    /\ frame[s].pc # "idle"
    /\ frame[s].op = "move"
    /\ frame[s].new_status = "Won"

\* C31: a step of a move to Won changes the row of no contact but the
\* winner and the contacts that share a case with the winner, and a sibling
\* whose status it changes becomes Lost; through the whole call a contact
\* linked to no case of the winner keeps its status and its notes.
C31_WriteSetConfined ==
    /\ [][\A s \in Sessions :
            (MovingToWon(s) /\ Log(s)' # Log(s))
            => LET A == frame[s].contato_id IN
               \A c \in Contacts :
                  contatos'[c] # contatos[c]
                  => /\ c \in {A} \cup SharingCase(A)
                     /\ c # A => contatos'[c].status = "Lost"]_vars
    /\ [](\A s \in Sessions :
            MovingToWon(s)
            => \A c \in Contacts \ ({frame[s].contato_id}
                                      \cup SharingCase(frame[s].contato_id)) :
                  /\ contatos[c].status = pre[s][c].status
                  /\ contatos[c].notes = pre[s][c].notes)

\* C31 witness: contact 2 won on case 2 and its sibling 1 was closed, while
\* contact 3, on case 1 with contact 1, and contact 4, on no case, stay New.
C31_Witness ==
    /\ WonReturned("s1") /\ frame["s1"].contato_id = 2
    /\ relacionamentos = <<Rel(1, 1), Rel(2, 1), Rel(2, 2), Rel(1, 3)>>
    /\ pre["s1"][1].status = "New" /\ contatos[1].status = "Lost"
    /\ contatos[2].status = "Won"
    /\ contatos[3].status = "New" /\ contatos[4].status = "New"
    /\ frame["s1"].result.closed = 1

\* The edited row has a row of its contact in the original frame from which
\* its contacted flag or its notes differ.
Differs(edited_row) ==
    \E j \in DOMAIN screen.original_df :
        /\ screen.original_df[j].contato_id = edited_row.contato_id
        /\ \/ edited_row.contacted # screen.original_df[j].contacted
           \/ edited_row.notes # screen.original_df[j].notes

\* The ids of the edited rows that differ, in row order, and the ids of the
\* store writes the run has issued, in call order.
DifferingIds ==
    LET rows == SelectSeq(screen.edited_df, Differs)
    IN [i \in DOMAIN rows |-> rows[i].contato_id]

WrittenIds ==
    LET writes == SelectSeq(Log(Viewer), LAMBDA c : c.call = "update_crm")
    IN [i \in DOMAIN writes |-> writes[i].id]

WritesDone ==
    Cardinality({i \in DOMAIN Log(Viewer) :
        Log(Viewer)[i].call = "update_crm" /\ Log(Viewer)[i].ok})

\* C32: when detect_and_save_changes has run, the store writes it issued
\* are, row for row, those of the edited rows that differ from their
\* original row, and while it runs they are the first of these; a contact
\* none of whose rows differs keeps its row in the store; the count of
\* saved changes is the number of writes the store carried out, and it is
\* the number the toast reports when it is not 0.
C32_ChangedRowsSaved ==
    /\ script.pc = "done" /\ screen.edited_df # <<>>
          => /\ WrittenIds = DifferingIds
             /\ screen.toast = IF WritesDone > 0 THEN WritesDone ELSE NoToast
    /\ script.pc = "save"
          => /\ Len(WrittenIds) < Len(DifferingIds)
             /\ WrittenIds = SubSeq(DifferingIds, 1, Len(WrittenIds))
             /\ script.idx \in DOMAIN screen.edited_df
             /\ Differs(screen.edited_df[script.idx])
    /\ script.pc \in {"save", "done"}
          => /\ script.changes_made = WritesDone
             /\ \A c \in Contacts :
                   (\A i \in DOMAIN screen.edited_df :
                       screen.edited_df[i].contato_id = c
                       => ~Differs(screen.edited_df[i]))
                   => contatos[c] = pre[Viewer][c]

\* C32 witness: of three edited rows the first is as it was, the second has
\* its flag changed and is saved, the third has its notes cleared and its
\* write fails: two writes, one change reported.
C32_Witness ==
    /\ script.pc = "done" /\ Len(screen.edited_df) = 3
    /\ screen.edited_df[1] = screen.original_df[1]
    /\ screen.edited_df[2].contacted # screen.original_df[2].contacted
    /\ screen.edited_df[2].notes = screen.original_df[2].notes
    /\ screen.original_df[3].notes = <<"foo">>
    /\ screen.edited_df[3].notes = Null
    /\ WrittenIds = <<2, 3>>
    /\ Log(Viewer)[2].ok /\ ~Log(Viewer)[3].ok
    /\ contatos[2].contacted = screen.edited_df[2].contacted
    /\ contatos[3] = pre[Viewer][3]
    /\ screen.toast = 1 /\ screen.errors = 1

====
